---- MODULE Spec2Model ----
(***************************************************************************)
(* Session-state tracking of capacitor (hud-core / hud-hook):              *)
(*   - the lock registry        core/hud-core/src/state/lock.rs            *)
(*   - the state store          core/hud-core/src/state/store.rs           *)
(*   - the resolver             core/hud-core/src/state/resolver.rs        *)
(*   - the hook processor       core/hud-hook/src/handle.rs                *)
(* Paths are strings; a string is modelled as the sequence of its          *)
(* characters so that starts_with / ends_with / trim_end_matches are the   *)
(* string operations of the source.                                        *)
(***************************************************************************)
EXTENDS Integers, Sequences, FiniteSets, TLC

VARIABLES
    locks,       \* the lock directories under ~/.capacitor/sessions
    alive,       \* the pids kill(pid, 0) succeeds for
    file,        \* the content of ~/.capacitor/sessions.json
    tombstones,  \* the session ids with a file under ~/.capacitor/ended-sessions
    activity,    \* the sessions object of ~/.capacitor/file-activity.json
    now,         \* the clock, in seconds
    hk,          \* per agent process: the hook invocation it is waiting for
    resolved,    \* the last query of the reader and its answer
    temp         \* the temp file each process has in the store's directory

vars == <<locks, alive, file, tombstones, activity, now, hk, resolved, temp>>

\* Option<T>: the empty set is None, {x} is Some(x).
None == {}
Some(x) == {x}
The(opt) == CHOOSE x \in opt : TRUE

(***************************************************************************)
(* Strings                                                                 *)
(***************************************************************************)
Root == <<"/">>
PathA == <<"/", "a">>
PathASlash == <<"/", "a", "/">>
PathAB == <<"/", "a", "b">>
PathAChild == <<"/", "a", "/", "b">>

\* The paths hooks, locks and queries are drawn from: the root, a project,
\* the same project written with a trailing slash, a sibling whose name
\* shares a string prefix with it, and a child directory of it.
Paths == {Root, PathA, PathASlash, PathAB, PathAChild}

starts_with(s, prefix) ==
    /\ Len(prefix) <= Len(s)
    /\ SubSeq(s, 1, Len(prefix)) = prefix

ends_with_slash(s) == Len(s) > 0 /\ s[Len(s)] = "/"

RECURSIVE trim_end_matches_slash(_)
trim_end_matches_slash(s) ==
    IF ends_with_slash(s)
    THEN trim_end_matches_slash(SubSeq(s, 1, Len(s) - 1))
    ELSE s

\* format!("{}/", p)
with_slash(p) == p \o <<"/">>

(***************************************************************************)
(* Session records (state/types.rs)                                        *)
(***************************************************************************)
SessionState == {"Working", "Ready", "Waiting", "Compacting", "Idle"}

Sessions == {"s1", "s2"}

\* Session ids are compared as strings; the ids of the model are ordered
\* as their text is.
SidRank(sid) == IF sid = "s1" THEN 1 ELSE 2

StaleSecs == 300
FRESH_RECORD_TTL == 30

\* is_stale with the age taken in minutes.
is_stale_minutes(record, t) == (t - record.updated_at) \div 60 > StaleSecs

\* SessionRecord::is_stale
is_stale(record, t) == t - record.updated_at > StaleSecs

\* is_record_fresh with the limit excluded.
is_record_fresh_strict(record, t) ==
    LET age_secs == t - record.updated_at
    IN IF age_secs < 0 THEN TRUE ELSE age_secs < FRESH_RECORD_TTL

\* resolver.rs is_record_fresh
is_record_fresh(record, t) ==
    LET age_secs == t - record.updated_at
    IN IF age_secs < 0 THEN TRUE ELSE age_secs <= FRESH_RECORD_TTL

(***************************************************************************)
(* The store file and StateStore::load (state/store.rs)                    *)
(***************************************************************************)
EmptySessions == [s \in {} |-> {}]

StoreVersion == 3

\* serde(rename_all = "lowercase") on SessionState: the JSON text of a state.
state_to_json(state) ==
    CASE state = "Working" -> "working"
      [] state = "Ready" -> "ready"
      [] state = "Idle" -> "idle"
      [] state = "Compacting" -> "compacting"
      [] state = "Waiting" -> "waiting"

\* The variant a JSON text names: None when it names no variant.
state_from_json(text) ==
    IF text = "working" THEN Some("Working")
    ELSE IF text = "ready" THEN Some("Ready")
    ELSE IF text = "idle" THEN Some("Idle")
    ELSE IF text = "compacting" THEN Some("Compacting")
    ELSE IF text = "waiting" THEN Some("Waiting")
    ELSE None

\* chrono's serde form of DateTime<Utc>: an RFC 3339 text, modelled by its
\* minute and second parts.
\* The timestamp written to the minute only.
to_rfc3339_minutes(t) == <<t \div 60, 0>>

to_rfc3339(t) == <<t \div 60, t % 60>>
parse_from_rfc3339(text) == text[1] * 60 + text[2]

\* An optional string member of a JSON object: left out, null, or a string.
JsonAbsent == [json |-> "absent", text |-> <<>>]
JsonNull == [json |-> "null", text |-> <<>>]
JsonString(text) == [json |-> "string", text |-> text]

\* Serialize for Option<String>: null for None (no skip_serializing_if).
option_to_json(opt) == IF opt = None THEN JsonNull ELSE JsonString(The(opt))

\* Deserialize for Option<String> under serde(default).
option_from_json(value) == IF value.json = "string" THEN Some(value.text) ELSE None

\* Serialize for SessionRecord: every field is written.
record_to_json(record) ==
    [session_id |-> record.session_id,
     state |-> state_to_json(record.state),
     cwd |-> record.cwd,
     updated_at |-> to_rfc3339(record.updated_at),
     state_changed_at |-> to_rfc3339(record.state_changed_at),
     working_on |-> option_to_json(record.working_on),
     transcript_path |-> option_to_json(record.transcript_path),
     permission_mode |-> option_to_json(record.permission_mode),
     project_dir |-> option_to_json(record.project_dir),
     last_event |-> option_to_json(record.last_event),
     active_subagent_count |-> Some(record.active_subagent_count)]

\* Deserialize for SessionRecord: None when the object does not parse (its
\* state names no variant); a member left out takes its serde default.
record_from_json(object) ==
    IF state_from_json(object.state) = None THEN None
    ELSE Some([session_id |-> object.session_id,
               state |-> The(state_from_json(object.state)),
               cwd |-> object.cwd,
               updated_at |-> parse_from_rfc3339(object.updated_at),
               state_changed_at |-> parse_from_rfc3339(object.state_changed_at),
               working_on |-> option_from_json(object.working_on),
               transcript_path |-> option_from_json(object.transcript_path),
               permission_mode |-> option_from_json(object.permission_mode),
               project_dir |-> option_from_json(object.project_dir),
               last_event |-> option_from_json(object.last_event),
               active_subagent_count |->
                   IF object.active_subagent_count = None THEN 0
                   ELSE The(object.active_subagent_count)])

\* The JSON objects of a sessions map, keyed as the map is.
sessions_to_json(sessions) == [s \in DOMAIN sessions |-> record_to_json(sessions[s])]

\* serde_json::from_str on the "sessions" member: None when some object
\* does not parse.
sessions_from_json(objects) ==
    IF \E s \in DOMAIN objects : record_from_json(objects[s]) = None THEN None
    ELSE Some([s \in DOMAIN objects |-> The(record_from_json(objects[s]))])

\* What a file holds: nothing (it does not exist), zero bytes, a proper
\* prefix of a serialized document (which is not JSON), bytes that
\* read_to_string cannot return, or a whole document {version, sessions}.
MissingFile == [kind |-> "missing", version |-> 0, sessions |-> EmptySessions]
EmptyFile == [kind |-> "empty", version |-> 0, sessions |-> EmptySessions]
PartialFile == [kind |-> "partial", version |-> 0, sessions |-> EmptySessions]
UnreadableFile == [kind |-> "unreadable", version |-> 0, sessions |-> EmptySessions]

\* serde_json::to_string_pretty(&StoreFile {version, sessions})
StoreDoc(version, sessions) ==
    [kind |-> "doc", version |-> version, sessions |-> sessions_to_json(sessions)]

\* StateStore::load with every document accepted whatever its version.
load_result_any_version(content) ==
    IF content.kind = "missing" THEN [ok |-> TRUE, sessions |-> EmptySessions]
    ELSE IF content.kind = "unreadable" THEN [ok |-> FALSE, sessions |-> EmptySessions]
    ELSE IF content.kind = "empty" THEN [ok |-> TRUE, sessions |-> EmptySessions]
    ELSE IF content.kind = "doc" /\ sessions_from_json(content.sessions) # None
         THEN [ok |-> TRUE, sessions |-> The(sessions_from_json(content.sessions))]
    ELSE [ok |-> TRUE, sessions |-> EmptySessions]

\* StateStore::load: Ok(store) or Err, with the sessions of the store.
load_result(content) ==
    IF content.kind = "missing" THEN [ok |-> TRUE, sessions |-> EmptySessions]
    ELSE IF content.kind = "unreadable" THEN [ok |-> FALSE, sessions |-> EmptySessions]
    ELSE IF content.kind = "empty" THEN [ok |-> TRUE, sessions |-> EmptySessions]
    ELSE IF /\ content.kind = "doc"
            /\ sessions_from_json(content.sessions) # None
            /\ content.version = StoreVersion
         THEN [ok |-> TRUE, sessions |-> The(sessions_from_json(content.sessions))]
    ELSE [ok |-> TRUE, sessions |-> EmptySessions]

\* StateStore::load(..).unwrap_or_else(|_| StateStore::new(..)): the
\* sessions of the store the caller goes on with.
load(content) == load_result(content).sessions

\* HashMap::values() and read_dir: the entries in some enumeration order.
Orders(S) ==
    {o \in [1..Cardinality(S) -> S] : \A i, j \in 1..Cardinality(S) : o[i] = o[j] => i = j}

(***************************************************************************)
(* Lock registry (state/lock.rs)                                           *)
(***************************************************************************)
Pids == {1, 2}

\* What a lock directory's name is the digest of: a project path, or the
\* key of a session-based lock.
PathKey(path) == [kind |-> "path", path |-> path, session |-> "", pid |-> 0]
SessionKey(sid, pid) == [kind |-> "session", path |-> <<>>, session |-> sid, pid |-> pid]

\* md5 is taken to be collision free: the digest names its input.
compute_lock_hash(key) == key

is_pid_alive(pid) == pid \in alive

\* The start time the OS reports for the process that holds a pid now;
\* the processes of the model are numbered in the order they started.
proc_start_time(pid) == pid

\* read_lock_info: None unless meta.json holds "path" and "started" strings.
read_lock_info(l) ==
    IF l.field # "started" THEN None
    ELSE Some([pid |-> l.pid, path |-> l.path, started |-> l.stamp])

check_lock_for_path(project_path) ==
    LET hash == compute_lock_hash(PathKey(project_path))
        dirs == {l \in locks : l.dir = hash}
    IN IF dirs = {} THEN None
       ELSE LET info == read_lock_info(The(dirs))
            IN IF info = None THEN None
               ELSE IF ~is_pid_alive(The(info).pid) THEN None
               ELSE info

child_prefix(project_path) ==
    IF ends_with_slash(project_path) THEN project_path ELSE with_slash(project_path)

\* find_child_lock: the locks it may return, one per enumeration order
\* (the first live lock under the prefix).
find_child_lock(project_path) ==
    {info \in UNION {read_lock_info(l) : l \in locks} :
        is_pid_alive(info.pid) /\ starts_with(info.path, child_prefix(project_path))}

is_session_running(project_path) ==
    \/ check_lock_for_path(project_path) # None
    \/ find_child_lock(project_path) # {}

\* The loop of find_matching_child_lock over the directory entries in the
\* order read_dir yields them (target_pid = None, target_cwd = None).
RECURSIVE fold_matching_lock(_, _, _, _)
fold_matching_lock(order, i, project_path, best_match) ==
    IF i > Len(order) THEN best_match
    ELSE LET info == read_lock_info(order[i])
             is_match ==
                 /\ info # None
                 /\ is_pid_alive(The(info).pid)
                 /\ \/ trim_end_matches_slash(The(info).path)
                          = trim_end_matches_slash(project_path)
                    \/ starts_with(The(info).path, child_prefix(project_path))
             next ==
                 IF ~is_match THEN best_match
                 ELSE IF best_match = None THEN info
                 ELSE IF The(info).started > The(best_match).started THEN info
                 ELSE best_match
         IN fold_matching_lock(order, i + 1, project_path, next)

\* find_matching_child_lock that returns the first matching lock read_dir
\* yields, as find_child_lock does.
find_matching_child_lock_first(order, project_path) ==
    LET matching ==
            {i \in 1..Len(order) :
                fold_matching_lock(<<order[i]>>, 1, project_path, None) # None}
    IN IF matching = {} THEN None
       ELSE read_lock_info(order[CHOOSE i \in matching : \A j \in matching : i <= j])

\* find_matching_child_lock that reports the queried path as the lock's.
find_matching_child_lock_at_query(order, project_path) ==
    {[info EXCEPT !.path = project_path] :
        info \in fold_matching_lock(order, 1, project_path, None)}

find_matching_child_lock(order, project_path) ==
    fold_matching_lock(order, 1, project_path, None)

(***************************************************************************)
(* Resolver (state/resolver.rs)                                            *)
(***************************************************************************)
Parent == 0
Child == 1
Exact == 2

normalize(p) == IF p = Root THEN Root ELSE trim_end_matches_slash(p)

\* match_type with the prefixes compared without the separator.
match_type_no_separator(candidate, lock_path) ==
    LET lock_path_normalized == normalize(lock_path)
        record_path_normalized == normalize(candidate)
    IN IF record_path_normalized = lock_path_normalized THEN Some(Exact)
       ELSE IF starts_with(record_path_normalized, lock_path_normalized) THEN Some(Child)
       ELSE IF starts_with(lock_path_normalized, record_path_normalized) THEN Some(Parent)
       ELSE None

\* The match type of one candidate path of a record against the lock path,
\* None when they are unrelated.
match_type(candidate, lock_path) ==
    LET lock_path_normalized == normalize(lock_path)
        record_path_normalized == normalize(candidate)
    IN IF record_path_normalized = lock_path_normalized THEN Some(Exact)
       ELSE IF lock_path_normalized = Root
            THEN IF starts_with(record_path_normalized, Root) /\ record_path_normalized # Root
                 THEN Some(Child) ELSE None
       ELSE IF record_path_normalized = Root
            THEN IF starts_with(lock_path_normalized, Root) /\ lock_path_normalized # Root
                 THEN Some(Parent) ELSE None
       ELSE IF starts_with(record_path_normalized, with_slash(lock_path_normalized))
            THEN Some(Child)
       ELSE IF starts_with(lock_path_normalized, with_slash(record_path_normalized))
            THEN Some(Parent)
       ELSE None

\* best_match_for_record: the strongest match over cwd and project_dir.
best_match_for_record(record, lock_path) ==
    LET found == match_type(record.cwd, lock_path)
                 \cup UNION {match_type(d, lock_path) : d \in record.project_dir}
    IN IF found = {} THEN None
       ELSE Some(CHOOSE m \in found : \A o \in found : o <= m)

\* should_replace that ranks the match type above the time of the update.
should_replace_match_first(record, current_match_type, record_is_stale, best) ==
    IF best.is_stale /\ ~record_is_stale THEN TRUE
    ELSE IF ~best.is_stale /\ record_is_stale THEN FALSE
    ELSE \/ current_match_type > best.match
         \/ /\ current_match_type = best.match
            /\ record.updated_at > best.record.updated_at
         \/ /\ record.updated_at = best.record.updated_at
            /\ current_match_type = best.match
            /\ SidRank(record.session_id) > SidRank(best.record.session_id)

should_replace(record, current_match_type, record_is_stale, best) ==
    IF best.is_stale /\ ~record_is_stale THEN TRUE
    ELSE IF ~best.is_stale /\ record_is_stale THEN FALSE
    ELSE \/ record.updated_at > best.record.updated_at
         \/ /\ record.updated_at = best.record.updated_at
            /\ current_match_type > best.match
         \/ /\ record.updated_at = best.record.updated_at
            /\ current_match_type = best.match
            /\ SidRank(record.session_id) > SidRank(best.record.session_id)

RECURSIVE fold_record_for_lock_path(_, _, _, _, _, _)
fold_record_for_lock_path(store, order, i, lock_path, t, best) ==
    IF i > Len(order) THEN best
    ELSE LET record == store[order[i]]
             record_is_stale == is_stale(record, t)
             mt == best_match_for_record(record, lock_path)
             entry == [record |-> record, match |-> The(mt), is_stale |-> record_is_stale]
             next ==
                 IF mt = None THEN best
                 ELSE IF best = None THEN Some(entry)
                 ELSE IF should_replace(record, The(mt), record_is_stale, The(best))
                      THEN Some(entry)
                 ELSE best
         IN fold_record_for_lock_path(store, order, i + 1, lock_path, t, next)

find_record_for_lock_path(store, order, lock_path, t) ==
    {b.record : b \in fold_record_for_lock_path(store, order, 1, lock_path, t, None)}

\* is_exact_or_child that takes a record above the query path as well.
is_exact_or_child_or_parent(record_cwd, project_path) ==
    LET project_normalized == normalize(project_path)
        record_cwd_normalized == normalize(record_cwd)
    IN \/ record_cwd_normalized = project_normalized
       \/ starts_with(record_cwd_normalized, child_prefix(project_normalized))
       \/ starts_with(project_normalized, child_prefix(record_cwd_normalized))

\* Whether a record's cwd is the query path or under it.
is_exact_or_child(record_cwd, project_path) ==
    LET project_normalized == normalize(project_path)
        record_cwd_normalized == normalize(record_cwd)
    IN \/ record_cwd_normalized = project_normalized
       \/ IF project_normalized = Root
          THEN record_cwd_normalized # Root /\ starts_with(record_cwd_normalized, Root)
          ELSE starts_with(record_cwd_normalized, with_slash(project_normalized))

RECURSIVE fold_exact_or_child_record(_, _, _, _, _)
fold_exact_or_child_record(store, order, i, project_path, best) ==
    IF i > Len(order) THEN best
    ELSE LET record == store[order[i]]
             next ==
                 IF ~is_exact_or_child(record.cwd, project_path) THEN best
                 ELSE IF best = None THEN Some(record)
                 ELSE IF record.updated_at > The(best).updated_at THEN Some(record)
                 ELSE best
         IN fold_exact_or_child_record(store, order, i + 1, project_path, next)

find_exact_or_child_record(store, order, project_path) ==
    fold_exact_or_child_record(store, order, 1, project_path, None)

ResolvedState(state, session_id, cwd, is_from_lock) ==
    [state |-> state, session_id |-> session_id, cwd |-> cwd, is_from_lock |-> is_from_lock]

\* resolve_state_with_details whose fallback accepts a fresh record in any
\* state.
resolve_state_with_details_any_state(store, lockOrder, recOrder, project_path, t) ==
    IF is_session_running(project_path)
    THEN LET lock == find_matching_child_lock(lockOrder, project_path)
         IN IF lock = None THEN None
            ELSE LET record == find_record_for_lock_path(store, recOrder, The(lock).path, t)
                 IN IF record = None
                    THEN Some(ResolvedState("Ready", None, The(lock).path, TRUE))
                    ELSE IF is_stale(The(record), t)
                    THEN Some(ResolvedState("Ready", Some(The(record).session_id),
                                            The(lock).path, TRUE))
                    ELSE Some(ResolvedState(The(record).state, Some(The(record).session_id),
                                            The(lock).path, TRUE))
    ELSE LET record == find_exact_or_child_record(store, recOrder, project_path)
         IN IF record = None THEN None
            ELSE IF is_record_fresh(The(record), t)
                 THEN Some(ResolvedState(The(record).state, Some(The(record).session_id),
                                         The(record).cwd, FALSE))
            ELSE None

\* resolve_state_with_details, on the store snapshot `store`, with the
\* lock directory read in order `lockOrder` and the store's map in order
\* `recOrder`, at time t.
\* resolve_state_with_details, lines 208-222: the answer once
\* is_session_running has returned true.
resolve_from_lock(store, lockOrder, recOrder, project_path, t) ==
    LET lock == find_matching_child_lock(lockOrder, project_path)
    IN IF lock = None THEN None
       ELSE LET record == find_record_for_lock_path(store, recOrder, The(lock).path, t)
            IN IF record = None
               THEN Some(ResolvedState("Ready", None, The(lock).path, TRUE))
               ELSE IF is_stale(The(record), t)
               THEN Some(ResolvedState("Ready", Some(The(record).session_id),
                                       The(lock).path, TRUE))
               ELSE Some(ResolvedState(The(record).state, Some(The(record).session_id),
                                       The(lock).path, TRUE))

\* The fallback that answers with an Idle record as with any other.
resolve_from_record_idle_too(store, recOrder, project_path, t) ==
    LET record == find_exact_or_child_record(store, recOrder, project_path)
    IN IF record = None THEN None
       ELSE IF is_record_fresh(The(record), t)
            THEN Some(ResolvedState(The(record).state, Some(The(record).session_id),
                                    The(record).cwd, FALSE))
       ELSE None

\* resolve_state_with_details, lines 234-244: the answer once
\* is_session_running has returned false.
resolve_from_record(store, recOrder, project_path, t) ==
    LET record == find_exact_or_child_record(store, recOrder, project_path)
    IN IF record = None THEN None
       ELSE IF is_record_fresh(The(record), t) /\ The(record).state # "Idle"
            THEN Some(ResolvedState(The(record).state, Some(The(record).session_id),
                                    The(record).cwd, FALSE))
       ELSE None

resolve_state_with_details(store, lockOrder, recOrder, project_path, t) ==
    IF is_session_running(project_path)
    THEN resolve_from_lock(store, lockOrder, recOrder, project_path, t)
    ELSE resolve_from_record(store, recOrder, project_path, t)

(***************************************************************************)
(* StateStore::update / remove (state/store.rs)                            *)
(***************************************************************************)
\* update that keeps the state of an existing record, as it keeps its
\* other fields.
update_keeping_state(sessions, session_id, state, cwd, t) ==
    LET existing == IF session_id \in DOMAIN sessions THEN Some(sessions[session_id]) ELSE None
        record == [session_id |-> session_id,
                   state |-> IF existing # None THEN The(existing).state ELSE state,
                   cwd |-> cwd, updated_at |-> t,
                   state_changed_at |-> IF existing # None
                                        THEN The(existing).state_changed_at ELSE t,
                   working_on |-> IF existing # None THEN The(existing).working_on ELSE None,
                   transcript_path |->
                       IF existing # None THEN The(existing).transcript_path ELSE None,
                   permission_mode |->
                       IF existing # None THEN The(existing).permission_mode ELSE None,
                   project_dir |-> IF existing # None THEN The(existing).project_dir ELSE None,
                   last_event |-> IF existing # None THEN The(existing).last_event ELSE None,
                   active_subagent_count |->
                       IF existing # None THEN The(existing).active_subagent_count ELSE 0]
    IN [s \in DOMAIN sessions \cup {session_id} |->
            IF s = session_id THEN record ELSE sessions[s]]

\* update that builds the record anew, without the fields update does
\* not set.
update_dropping_metadata(sessions, session_id, state, cwd, t) ==
    LET existing == IF session_id \in DOMAIN sessions THEN Some(sessions[session_id]) ELSE None
        state_changed_at ==
            IF existing # None /\ The(existing).state = state
            THEN The(existing).state_changed_at
            ELSE t
        record == [session_id |-> session_id, state |-> state, cwd |-> cwd,
                   updated_at |-> t, state_changed_at |-> state_changed_at,
                   working_on |-> None, transcript_path |-> None,
                   permission_mode |-> None, project_dir |-> None,
                   last_event |-> None, active_subagent_count |-> 0]
    IN [s \in DOMAIN sessions \cup {session_id} |->
            IF s = session_id THEN record ELSE sessions[s]]

\* update that stamps the change of state only: updated_at is kept from
\* the existing record.
update_stamping_change_only(sessions, session_id, state, cwd, t) ==
    LET new == update_dropping_metadata(sessions, session_id, state, cwd, t)
    IN [s \in DOMAIN new |->
            IF s = session_id /\ session_id \in DOMAIN sessions
            THEN [new[s] EXCEPT !.updated_at = sessions[session_id].updated_at,
                                !.state_changed_at = t]
            ELSE new[s]]

\* The sessions map after store.update(session_id, state, cwd) at time t.
update(sessions, session_id, state, cwd, t) ==
    LET existing == IF session_id \in DOMAIN sessions THEN Some(sessions[session_id]) ELSE None
        state_changed_at ==
            IF existing # None /\ The(existing).state = state
            THEN The(existing).state_changed_at
            ELSE t
        record == [session_id |-> session_id, state |-> state, cwd |-> cwd,
                   updated_at |-> t, state_changed_at |-> state_changed_at,
                   working_on |-> IF existing # None THEN The(existing).working_on ELSE None,
                   transcript_path |->
                       IF existing # None THEN The(existing).transcript_path ELSE None,
                   permission_mode |->
                       IF existing # None THEN The(existing).permission_mode ELSE None,
                   project_dir |-> IF existing # None THEN The(existing).project_dir ELSE None,
                   last_event |-> IF existing # None THEN The(existing).last_event ELSE None,
                   active_subagent_count |->
                       IF existing # None THEN The(existing).active_subagent_count ELSE 0]
    IN [s \in DOMAIN sessions \cup {session_id} |->
            IF s = session_id THEN record ELSE sessions[s]]

\* remove that empties the store.
remove_every_record(sessions, session_id) ==
    [s \in {} |-> sessions[s]]

remove(sessions, session_id) ==
    [s \in DOMAIN sessions \ {session_id} |-> sessions[s]]

(***************************************************************************)
(* Hook processor (hud-hook/src/handle.rs)                                 *)
(***************************************************************************)
EventNames == {"SessionStart", "UserPromptSubmit", "PreToolUse", "PostToolUse",
               "PermissionRequest", "PreCompact", "Notification", "Stop",
               "SessionEnd", "Unknown"}

HookEvent(name, notification_type, stop_hook_active, tool_name, file_path) ==
    [name |-> name, notification_type |-> notification_type,
     stop_hook_active |-> stop_hook_active, tool_name |-> tool_name,
     file_path |-> file_path]

SimpleEvent(name) == HookEvent(name, "", FALSE, None, None)

FileF == <<"/", "f">>

\* The events to_event() yields for the hook inputs of the model.
Events ==
    {SimpleEvent(n) : n \in {"SessionStart", "UserPromptSubmit", "PreToolUse",
                             "PermissionRequest", "PreCompact", "SessionEnd", "Unknown"}}
    \cup {HookEvent("PostToolUse", "", FALSE, Some(t), Some(FileF)) : t \in {"Edit", "Bash"}}
    \cup {HookEvent("Notification", nt, FALSE, None, None) :
              nt \in {"idle_prompt", "permission_prompt"}}
    \cup {HookEvent("Stop", "", a, None, None) : a \in BOOLEAN}

HookPaths == {PathA, PathAChild}

HookSessions == {"s1"}

\* The hook's stdin: the event (None without hook_event_name), the session
\* id and the cwd, each of which may be missing.
HookInputs ==
    {[event |-> e, session_id |-> s, cwd |-> c] :
        e \in {None} \cup {Some(ev) : ev \in Events},
        s \in {None} \cup {Some(sid) : sid \in HookSessions},
        c \in {None} \cup {Some(cp) : cp \in HookPaths}}

\* The inputs of the second agent: it opens and closes a session, its own
\* or the first agent's resumed in another process.
SecondInputs ==
    {[event |-> Some(SimpleEvent(n)), session_id |-> Some(sid), cwd |-> Some(PathA)] :
        n \in {"UserPromptSubmit", "SessionEnd"}, sid \in Sessions}

\* The inputs of the first agent while the second one runs: every event of
\* session s1 in one directory.
FirstInputs ==
    {i \in HookInputs : i.event # None /\ i.session_id # None /\ i.cwd = Some(PathA)}

\* The inputs agent p sends when two agents run at once.
HookInputsOf(p) == IF p = 1 THEN FirstInputs ELSE SecondInputs

\* is_active_state that takes only Working for active.
is_active_state_working_only(state) == state = Some("Working")

is_active_state(state) ==
    state \in {Some("Working"), Some("Waiting"), Some("Compacting")}

extract_file_activity(tool_name, file_path) ==
    IF tool_name \in {Some("Edit"), Some("Write"), Some("Read"), Some("NotebookEdit")}
    THEN IF file_path = None THEN None
         ELSE Some([file_path |-> The(file_path), tool |-> The(tool_name)])
    ELSE None

Outcome(action, new_state, file_activity) ==
    [action |-> action, new_state |-> new_state, file_activity |-> file_activity]

\* tool_use_action that takes every active state for a heartbeat.
tool_use_action_active(current_state, file_activity) ==
    IF is_active_state(current_state)
    THEN Outcome("Heartbeat", None, file_activity)
    ELSE Outcome("Upsert", Some("Working"), file_activity)

\* tool_use_action that sets Idle where the record is not Working.
tool_use_action_idle(current_state, file_activity) ==
    IF current_state = Some("Working")
    THEN Outcome("Heartbeat", None, file_activity)
    ELSE Outcome("Upsert", Some("Idle"), file_activity)

tool_use_action(current_state, file_activity) ==
    IF current_state = Some("Working")
    THEN Outcome("Heartbeat", None, file_activity)
    ELSE Outcome("Upsert", Some("Working"), file_activity)

\* process_event that takes every Stop for the end of a turn, whatever
\* stop_hook_active says.
process_event_stop_always(event, current_state) ==
    CASE event.name = "SessionStart" ->
            IF is_active_state(current_state)
            THEN Outcome("Skip", None, None)
            ELSE Outcome("Upsert", Some("Ready"), None)
      [] event.name = "UserPromptSubmit" -> Outcome("Upsert", Some("Working"), None)
      [] event.name = "PreToolUse" -> tool_use_action(current_state, None)
      [] event.name = "PostToolUse" ->
            tool_use_action(current_state,
                            extract_file_activity(event.tool_name, event.file_path))
      [] event.name = "PermissionRequest" -> Outcome("Upsert", Some("Waiting"), None)
      [] event.name = "PreCompact" -> Outcome("Upsert", Some("Compacting"), None)
      [] event.name = "Notification" ->
            IF event.notification_type = "idle_prompt"
            THEN Outcome("Upsert", Some("Ready"), None)
            ELSE Outcome("Skip", None, None)
      [] event.name = "Stop" -> Outcome("Upsert", Some("Ready"), None)
      [] event.name = "SessionEnd" -> Outcome("Delete", None, None)
      [] OTHER -> Outcome("Skip", None, None)

process_event(event, current_state) ==
    CASE event.name = "SessionStart" ->
            IF is_active_state(current_state)
            THEN Outcome("Skip", None, None)
            ELSE Outcome("Upsert", Some("Ready"), None)
      [] event.name = "UserPromptSubmit" -> Outcome("Upsert", Some("Working"), None)
      [] event.name = "PreToolUse" -> tool_use_action(current_state, None)
      [] event.name = "PostToolUse" ->
            tool_use_action(current_state,
                            extract_file_activity(event.tool_name, event.file_path))
      [] event.name = "PermissionRequest" -> Outcome("Upsert", Some("Waiting"), None)
      [] event.name = "PreCompact" -> Outcome("Upsert", Some("Compacting"), None)
      [] event.name = "Notification" ->
            IF event.notification_type = "idle_prompt"
            THEN Outcome("Upsert", Some("Ready"), None)
            ELSE Outcome("Skip", None, None)
      [] event.name = "Stop" ->
            IF event.stop_hook_active
            THEN Outcome("Skip", None, None)
            ELSE Outcome("Upsert", Some("Ready"), None)
      [] event.name = "SessionEnd" -> Outcome("Delete", None, None)
      [] OTHER -> Outcome("Skip", None, None)

\* has_tombstone looking in the wrong directory: it finds nothing.
has_tombstone_never(session_id) == session_id \in {}

has_tombstone(session_id) == session_id \in tombstones

\* HookInput::resolve_cwd: the input's cwd, else the existing record's.
resolve_cwd(input, current_cwd) ==
    IF input.cwd # None THEN input.cwd ELSE current_cwd

\* count_other_session_locks: the live locks of the session held for
\* another pid.
count_other_session_locks(session_id, pid) ==
    Cardinality({l \in locks : /\ l.dir.kind = "session"
                               /\ l.dir.session = session_id
                               /\ l.pid # pid
                               /\ is_pid_alive(l.pid)})

\* create_session_lock: the registry after it; nothing changes when a
\* live lock already exists for the key.
create_session_lock(session_id, cwd, pid, t) ==
    LET dir == compute_lock_hash(SessionKey(session_id, pid))
        held == {l \in locks : l.dir = dir}
    IN IF held # {} /\ is_pid_alive(The(held).pid) THEN locks
       ELSE (locks \ held)
            \cup {[dir |-> dir, pid |-> pid, path |-> cwd, field |-> "created", stamp |-> t,
                   proc_started |-> Some(proc_start_time(pid))]}

\* release_lock_by_session: the registry after it.
release_lock_by_session(session_id, pid) ==
    {l \in locks : ~(l.dir = compute_lock_hash(SessionKey(session_id, pid)) /\ l.pid = pid)}

ActivityCap == 100

\* truncate that keeps the end of the list instead of its start.
truncate_keeping_end(files, n) ==
    IF Len(files) > n THEN SubSeq(files, Len(files) - n + 1, Len(files)) ELSE files

truncate(files, n) == IF Len(files) > n THEN SubSeq(files, 1, n) ELSE files

\* record_file_activity at time t: the sessions object of the sidecar
\* after it.
record_file_activity(sessions, session_id, cwd, file_path, tool_name, t) ==
    LET resolved_path == IF starts_with(file_path, <<"/">>) THEN file_path
                         ELSE with_slash(cwd) \o file_path
        files == IF session_id \in DOMAIN sessions THEN sessions[session_id].files ELSE <<>>
        entry == [file_path |-> resolved_path, tool |-> tool_name,
                  timestamp |-> to_rfc3339(t)]
        row == [cwd |-> cwd, files |-> truncate(<<entry>> \o files, ActivityCap)]
    IN [s \in DOMAIN sessions \cup {session_id} |->
            IF s = session_id THEN row ELSE sessions[s]]

\* remove_session_activity that leaves the row where it is.
remove_session_activity_keeping(sessions, session_id) ==
    [s \in DOMAIN sessions |-> sessions[s]]

remove_session_activity(sessions, session_id) ==
    [s \in DOMAIN sessions \ {session_id} |-> sessions[s]]

\* The hook process an agent (pid p) has spawned and waits for.  pc is the
\* next step of run(); steps lists the clean-up steps of SessionEnd done.
IdleHook ==
    [pc |-> "idle", event |-> SimpleEvent("Unknown"), session_id |-> "", cwd |-> <<>>,
     store |-> EmptySessions, action |-> "Skip", new_state |-> None,
     file_activity |-> None, steps |-> <<>>, outcome |-> ""]

\* run() has returned: what is left of the invocation is its outcome.
Finished(h, outcome) ==
    [IdleHook EXCEPT !.pc = "done", !.outcome = outcome, !.steps = h.steps,
                     !.session_id = h.session_id]

\* What run() does after the match on the action: spawn the lock holder
\* for a session-establishing event, then record the file activity.
AfterAction(h) ==
    IF h.event.name \in {"SessionStart", "UserPromptSubmit"} THEN [h EXCEPT !.pc = "spawn"]
    ELSE IF h.file_activity # None THEN [h EXCEPT !.pc = "record"]
    ELSE Finished(h, "ok")

MaxActivity == 1

\* run() that takes a missing session_id for the empty id and goes on.
HookStartAnonymous(p, input) ==
    /\ hk[p].pc \in {"idle", "done"}
    /\ p \in alive
    /\ IF input.event = None
       THEN hk' = [hk EXCEPT ![p] = Finished(IdleHook, "no_event")]
       ELSE LET session_id == IF input.session_id = None THEN ""
                              ELSE The(input.session_id)
                h == [IdleHook EXCEPT !.event = The(input.event), !.session_id = session_id,
                                      !.cwd = IF input.cwd = None THEN <<>> ELSE The(input.cwd),
                                      !.outcome = IF input.cwd = None THEN "no_cwd" ELSE ""]
            IN hk' = [hk EXCEPT ![p] = [h EXCEPT !.pc = "load"]]
    /\ UNCHANGED <<locks, alive, file, tombstones, activity, now, resolved, temp>>

\* run(), lines 61-105: parse the input, drop it without an event name,
\* without a session id, or for a tombstoned session; SessionStart clears
\* the tombstone.
HookStart(p, input) ==
    /\ hk[p].pc \in {"idle", "done"}
    /\ p \in alive
    /\ IF input.event = None
       THEN /\ hk' = [hk EXCEPT ![p] = Finished(IdleHook, "no_event")]
            /\ UNCHANGED tombstones
       ELSE IF input.session_id = None
       THEN /\ hk' = [hk EXCEPT ![p] = Finished([IdleHook EXCEPT !.event = The(input.event)],
                                                "no_session")]
            /\ UNCHANGED tombstones
       ELSE LET event == The(input.event)
                session_id == The(input.session_id)
                h == [IdleHook EXCEPT !.event = event, !.session_id = session_id,
                                      !.cwd = IF input.cwd = None THEN <<>> ELSE The(input.cwd),
                                      !.outcome = IF input.cwd = None THEN "no_cwd" ELSE ""]
            IN IF /\ event.name # "SessionEnd"
                  /\ event.name # "SessionStart"
                  /\ has_tombstone(session_id)
               THEN /\ hk' = [hk EXCEPT ![p] = Finished(h, "tombstoned")]
                    /\ UNCHANGED tombstones
               ELSE /\ (event.name = "PostToolUse" /\ session_id \in DOMAIN activity) =>
                           Len(activity[session_id].files) < MaxActivity
                    /\ hk' = [hk EXCEPT ![p] = [h EXCEPT !.pc = "load"]]
                    /\ tombstones' = IF event.name = "SessionStart"
                                     THEN tombstones \ {session_id}
                                     ELSE tombstones
    /\ UNCHANGED <<locks, alive, file, activity, now, resolved, temp>>

\* run() without the check for a missing cwd: the event goes on with an
\* empty cwd.
HookLoadAnyCwd(p) ==
    LET h == hk[p]
        store == load(file)
        current_record == IF h.session_id \in DOMAIN store
                          THEN Some(store[h.session_id]) ELSE None
        current_state == {r.state : r \in current_record}
        current_cwd == {r.cwd : r \in current_record}
        cwd == resolve_cwd([cwd |-> IF h.outcome = "no_cwd" THEN None ELSE Some(h.cwd)],
                           current_cwd)
        out == process_event(h.event, current_state)
        h1 == [h EXCEPT !.store = store, !.action = out.action, !.new_state = out.new_state,
                        !.file_activity = out.file_activity,
                        !.cwd = IF cwd = None THEN <<>> ELSE The(cwd),
                        !.outcome = ""]
        state == IF out.new_state # None THEN The(out.new_state)
                 ELSE IF current_state # None THEN The(current_state)
                 ELSE "Ready"
    IN /\ h.pc = "load"
       /\ hk' = [hk EXCEPT ![p] =
                    IF out.action = "Delete" THEN [h1 EXCEPT !.pc = "count"]
                    ELSE IF out.action \in {"Upsert", "Heartbeat"}
                         THEN [h1 EXCEPT !.pc = "save",
                                         !.store = update(store, h.session_id, state,
                                                          h1.cwd, now)]
                    ELSE AfterAction(h1)]
       /\ UNCHANGED <<locks, alive, file, tombstones, activity, now, resolved, temp>>

\* run(), lines 118-164 and 207-214: load the store, resolve the cwd,
\* decide the action and, for an upsert or heartbeat, update the record
\* in the loaded store.
HookLoad(p) ==
    LET h == hk[p]
        store == load(file)
        current_record == IF h.session_id \in DOMAIN store
                          THEN Some(store[h.session_id]) ELSE None
        current_state == {r.state : r \in current_record}
        current_cwd == {r.cwd : r \in current_record}
        cwd == resolve_cwd([cwd |-> IF h.outcome = "no_cwd" THEN None ELSE Some(h.cwd)],
                           current_cwd)
        out == process_event(h.event, current_state)
        h1 == [h EXCEPT !.store = store, !.action = out.action, !.new_state = out.new_state,
                        !.file_activity = out.file_activity,
                        !.cwd = IF cwd = None THEN <<>> ELSE The(cwd),
                        !.outcome = ""]
        state == IF out.new_state # None THEN The(out.new_state)
                 ELSE IF current_state # None THEN The(current_state)
                 ELSE "Ready"
    IN /\ h.pc = "load"
       /\ hk' = [hk EXCEPT ![p] =
                    IF cwd = None /\ out.action # "Delete" THEN Finished(h1, "no_cwd")
                    ELSE IF out.action = "Delete" THEN [h1 EXCEPT !.pc = "count"]
                    ELSE IF out.action \in {"Upsert", "Heartbeat"}
                         THEN [h1 EXCEPT !.pc = "save",
                                         !.store = update(store, h.session_id, state,
                                                          h1.cwd, now)]
                    ELSE AfterAction(h1)]
       /\ UNCHANGED <<locks, alive, file, tombstones, activity, now, resolved, temp>>

\* SessionEnd that never looks for the locks of other processes.
HookCountAlone(p) ==
    LET h == hk[p]
    IN /\ h.pc = "count"
       /\ hk' = [hk EXCEPT ![p] = [h EXCEPT !.pc = "tombstone"]]
       /\ UNCHANGED <<locks, alive, file, tombstones, activity, now, resolved, temp>>

\* run(), lines 171-180: SessionEnd keeps the record when another process
\* still holds a lock of the session.
HookCount(p) ==
    LET h == hk[p]
    IN /\ h.pc = "count"
       /\ hk' = [hk EXCEPT ![p] =
                    IF count_other_session_locks(h.session_id, p) > 0
                    THEN [h EXCEPT !.pc = "release"]
                    ELSE [h EXCEPT !.pc = "tombstone"]]
       /\ UNCHANGED <<locks, alive, file, tombstones, activity, now, resolved, temp>>

\* The clean-up with the lock released first, before the record is removed.
HookTombstoneReleasingLock(p) ==
    LET h == hk[p]
    IN /\ h.pc = "tombstone"
       /\ tombstones' = tombstones \cup {h.session_id}
       /\ locks' = release_lock_by_session(h.session_id, p)
       /\ hk' = [hk EXCEPT ![p] = [h EXCEPT !.pc = "save",
                                            !.store = remove(h.store, h.session_id),
                                            !.steps = Append(h.steps, "tombstone")]]
       /\ UNCHANGED <<alive, file, activity, now, resolved, temp>>

\* run(), lines 186-189: create_tombstone, then store.remove.
HookTombstone(p) ==
    LET h == hk[p]
    IN /\ h.pc = "tombstone"
       /\ tombstones' = tombstones \cup {h.session_id}
       /\ hk' = [hk EXCEPT ![p] = [h EXCEPT !.pc = "save",
                                            !.store = remove(h.store, h.session_id),
                                            !.steps = Append(h.steps, "tombstone")]]
       /\ UNCHANGED <<locks, alive, file, activity, now, resolved, temp>>

\* store.save(): the rename of the written temp file onto the store file.
HookSave(p) ==
    LET h == hk[p]
    IN /\ h.pc = "save"
       /\ file' = StoreDoc(StoreVersion, h.store)
       /\ hk' = [hk EXCEPT ![p] =
                    IF h.action = "Delete"
                    THEN [h EXCEPT !.pc = "activity", !.steps = Append(h.steps, "save")]
                    ELSE AfterAction(h)]
       /\ UNCHANGED <<locks, alive, tombstones, activity, now, resolved, temp>>

\* store.save() fails: run() returns the error, the store file is as it was.
HookSaveFail(p) ==
    LET h == hk[p]
    IN /\ h.pc = "save"
       /\ hk' = [hk EXCEPT ![p] = Finished(h, "error")]
       /\ UNCHANGED <<locks, alive, file, tombstones, activity, now, resolved, temp>>

\* run(), line 195: remove_session_activity.
HookRemoveActivity(p) ==
    LET h == hk[p]
    IN /\ h.pc = "activity"
       /\ activity' = remove_session_activity(activity, h.session_id)
       /\ hk' = [hk EXCEPT ![p] = [h EXCEPT !.pc = "release",
                                            !.steps = Append(h.steps, "activity")]]
       /\ UNCHANGED <<locks, alive, file, tombstones, now, resolved, temp>>

\* run(), line 199: release_lock_by_session, the last step of SessionEnd.
HookRelease(p) ==
    LET h == hk[p]
    IN /\ h.pc = "release"
       /\ locks' = release_lock_by_session(h.session_id, p)
       /\ hk' = [hk EXCEPT ![p] = Finished([h EXCEPT !.steps = Append(h.steps, "release")],
                                           "ok")]
       /\ UNCHANGED <<alive, file, tombstones, activity, now, resolved, temp>>

\* run(), lines 227-229: spawn_lock_holder.
HookSpawn(p) ==
    LET h == hk[p]
    IN /\ h.pc = "spawn"
       /\ locks' = create_session_lock(h.session_id, h.cwd, p, now)
       /\ hk' = [hk EXCEPT ![p] = IF h.file_activity # None THEN [h EXCEPT !.pc = "record"]
                                  ELSE Finished(h, "ok")]
       /\ UNCHANGED <<alive, file, tombstones, activity, now, resolved, temp>>

\* run(), lines 232-234: record_file_activity.
HookRecord(p) ==
    LET h == hk[p]
    IN /\ h.pc = "record"
       /\ activity' = record_file_activity(activity, h.session_id, h.cwd,
                                           The(h.file_activity).file_path,
                                           The(h.file_activity).tool, now)
       /\ hk' = [hk EXCEPT ![p] = Finished(h, "ok")]
       /\ UNCHANGED <<locks, alive, file, tombstones, now, resolved, temp>>

MaxClock == 1

Tick ==
    /\ now < MaxClock
    /\ now' = now + 1
    /\ UNCHANGED <<locks, alive, file, tombstones, activity, hk, resolved, temp>>

\* pc is the reader's position in resolve_state_with_details; at_start
\* keeps, for a query followed step by step, the answers the registry gave
\* when the query began.
NoQuery == [q |-> <<>>, running |-> FALSE, res |-> None, pc |-> "idle", at_start |-> {}]

EmptyActivity == [s \in {} |-> [cwd |-> <<>>, files |-> <<>>]]

NoTemp == [p \in Pids |-> MissingFile]

Init ==
    /\ locks = {}
    /\ alive = {1}
    /\ file = MissingFile
    /\ tombstones = {}
    /\ activity = EmptyActivity
    /\ now = 0
    /\ hk = [p \in Pids |-> IdleHook]
    /\ resolved = NoQuery
    /\ temp = NoTemp

Next ==
    \/ \E p \in Pids, input \in HookInputs : HookStart(p, input)
    \/ \E p \in Pids : HookLoad(p)
    \/ \E p \in Pids : HookCount(p)
    \/ \E p \in Pids : HookTombstone(p)
    \/ \E p \in Pids : HookSave(p)
    \/ \E p \in Pids : HookSaveFail(p)
    \/ \E p \in Pids : HookRemoveActivity(p)
    \/ \E p \in Pids : HookRelease(p)
    \/ \E p \in Pids : HookSpawn(p)
    \/ \E p \in Pids : HookRecord(p)
    \/ Tick

Spec == Init /\ [][Next]_vars

\* Two agents at once, each hook step interleaved with the other's; the
\* clock stands still.
InitRace ==
    /\ locks = {}
    /\ alive = Pids
    /\ file = MissingFile
    /\ tombstones = {}
    /\ activity = EmptyActivity
    /\ now = 0
    /\ hk = [p \in Pids |-> IdleHook]
    /\ resolved = NoQuery
    /\ temp = NoTemp

NextRace ==
    \/ \E p \in Pids : \E input \in HookInputsOf(p) : HookStart(p, input)
    \/ \E p \in Pids : HookLoad(p)
    \/ \E p \in Pids : HookCount(p)
    \/ \E p \in Pids : HookTombstone(p)
    \/ \E p \in Pids : HookSave(p)
    \/ \E p \in Pids : HookSaveFail(p)
    \/ \E p \in Pids : HookRemoveActivity(p)
    \/ \E p \in Pids : HookRelease(p)
    \/ \E p \in Pids : HookSpawn(p)
    \/ \E p \in Pids : HookRecord(p)

SpecRace == InitRace /\ [][NextRace]_vars

(***************************************************************************)
(* StateStore::save step by step, with writers that crash                  *)
(***************************************************************************)
\* The sessions of the store file before the saves, and the stores the
\* writers save.
PriorSessions ==
    [s \in {"s1"} |->
        [session_id |-> "s1", state |-> "Working", cwd |-> PathA, updated_at |-> 0,
         state_changed_at |-> 0, working_on |-> None, transcript_path |-> None,
         permission_mode |-> None, project_dir |-> None, last_event |-> None,
         active_subagent_count |-> 0]]

NewStores ==
    {EmptySessions}
    \cup {update(PriorSessions, sid, st, PathA, 1) : sid \in Sessions, st \in {"Ready", "Waiting"}}

\* save(), lines 127-145: serialize, create the temp file next to the
\* store file.
SaveBegin(p, store) ==
    /\ p \in alive
    /\ hk[p].pc = "idle"
    /\ temp' = [temp EXCEPT ![p] = EmptyFile]
    /\ hk' = [hk EXCEPT ![p] = [IdleHook EXCEPT !.pc = "write", !.store = store]]
    /\ UNCHANGED <<locks, alive, file, tombstones, activity, now, resolved>>

\* The store file opened and written in place.
SaveWriteInPlace(p) ==
    /\ p \in alive
    /\ hk[p].pc = "write"
    /\ temp[p].kind = "empty"
    /\ file' = PartialFile
    /\ temp' = [temp EXCEPT ![p] = PartialFile]
    /\ UNCHANGED <<locks, alive, tombstones, activity, now, hk, resolved>>

\* write_all, lines 146-148: a first write() that takes part of the bytes.
SaveWriteSome(p) ==
    /\ p \in alive
    /\ hk[p].pc = "write"
    /\ temp[p].kind = "empty"
    /\ temp' = [temp EXCEPT ![p] = PartialFile]
    /\ UNCHANGED <<locks, alive, file, tombstones, activity, now, hk, resolved>>

\* write_all, lines 146-148: the last write(); the temp file is whole.
SaveWriteAll(p) ==
    /\ p \in alive
    /\ hk[p].pc = "write"
    /\ temp' = [temp EXCEPT ![p] = StoreDoc(StoreVersion, hk[p].store)]
    /\ hk' = [hk EXCEPT ![p].pc = "flush"]
    /\ UNCHANGED <<locks, alive, file, tombstones, activity, now, resolved>>

\* flush, lines 149-151.
SaveFlush(p) ==
    /\ p \in alive
    /\ hk[p].pc = "flush"
    /\ hk' = [hk EXCEPT ![p].pc = "persist"]
    /\ UNCHANGED <<locks, alive, file, tombstones, activity, now, resolved, temp>>

\* persist, lines 152-154: rename(2) of the temp file onto the store file.
SavePersist(p) ==
    /\ p \in alive
    /\ hk[p].pc = "persist"
    /\ file' = temp[p]
    /\ temp' = [temp EXCEPT ![p] = MissingFile]
    /\ hk' = [hk EXCEPT ![p].pc = "done", ![p].outcome = "ok"]
    /\ UNCHANGED <<locks, alive, tombstones, activity, now, resolved>>

\* A step of save() fails: the error is returned and the NamedTempFile is
\* dropped, which deletes the temp file.
SaveFail(p) ==
    /\ p \in alive
    /\ hk[p].pc \in {"write", "flush", "persist"}
    /\ temp' = [temp EXCEPT ![p] = MissingFile]
    /\ hk' = [hk EXCEPT ![p].pc = "done", ![p].outcome = "error"]
    /\ UNCHANGED <<locks, alive, file, tombstones, activity, now, resolved>>

\* The writer is killed; its temp file stays behind.
Crash(p) ==
    /\ p \in alive
    /\ hk[p].pc \in {"write", "flush", "persist"}
    /\ alive' = alive \ {p}
    /\ UNCHANGED <<locks, file, tombstones, activity, now, hk, resolved, temp>>

InitSave ==
    /\ locks = {}
    /\ alive = Pids
    /\ file = StoreDoc(StoreVersion, PriorSessions)
    /\ tombstones = {}
    /\ activity = EmptyActivity
    /\ now = 0
    /\ hk = [p \in Pids |-> IdleHook]
    /\ resolved = NoQuery
    /\ temp = NoTemp

NextSave ==
    \/ \E p \in Pids, store \in NewStores : SaveBegin(p, store)
    \/ \E p \in Pids : SaveWriteSome(p)
    \/ \E p \in Pids : SaveWriteAll(p)
    \/ \E p \in Pids : SaveFlush(p)
    \/ \E p \in Pids : SavePersist(p)
    \/ \E p \in Pids : SaveFail(p)
    \/ \E p \in Pids : Crash(p)

SpecSave == InitSave /\ [][NextSave]_vars

(***************************************************************************)
(* The resolver on arbitrary snapshots                                     *)
(***************************************************************************)
\* The instants records of a snapshot were last updated at, relative to
\* the time of the query: just now, at and past the fresh-record limit, at
\* and past the staleness limit.
QueryTime == StaleSecs + 1
RecordTimes ==
    {QueryTime, QueryTime - FRESH_RECORD_TTL, QueryTime - FRESH_RECORD_TTL - 1,
     QueryTime - StaleSecs, QueryTime - StaleSecs - 1}

SnapshotStates == {"Working", "Idle"}
SnapshotDirs == {None, Some(PathA)}

SnapshotRecord(sid) ==
    {[session_id |-> sid, state |-> st, cwd |-> cwd, updated_at |-> t,
      state_changed_at |-> t, working_on |-> None, transcript_path |-> None,
      permission_mode |-> None, project_dir |-> d, last_event |-> None,
      active_subagent_count |-> 0] :
        st \in SnapshotStates, cwd \in Paths, t \in RecordTimes, d \in SnapshotDirs}

SnapshotStores ==
    UNION {{st \in [S -> UNION {SnapshotRecord(s) : s \in S}] :
               \A s \in S : st[s].session_id = s} : S \in SUBSET Sessions}

LivePid == CHOOSE p \in Pids : \A o \in Pids : p <= o
DeadPid == CHOOSE p \in Pids : p # LivePid

\* A lock directory as tests_helper::create_lock_with_timestamp makes it.
PathLock(pid, path, started) ==
    [dir |-> compute_lock_hash(PathKey(path)), pid |-> pid, path |-> path,
     field |-> "started", stamp |-> started, proc_started |-> None]

\* A lock directory as create_session_lock makes it.
SessionLock(sid, pid, path, started) ==
    [dir |-> compute_lock_hash(SessionKey(sid, pid)), pid |-> pid, path |-> path,
     field |-> "started", stamp |-> started, proc_started |-> None]

\* The lock registries of the snapshots: empty, or one lock directory,
\* path-named or session-named, of a live or of a dead process.
SnapshotLocks ==
    {PathLock(pid, p, 1) : pid \in Pids, p \in Paths}
    \cup {SessionLock("s1", LivePid, p, 1) : p \in Paths}

SnapshotRegistries == {{}} \cup {{l} : l \in SnapshotLocks}

InitResolve ==
    /\ alive = {LivePid}
    /\ now = QueryTime
    /\ locks \in SnapshotRegistries
    /\ \E store \in SnapshotStores : file = StoreDoc(StoreVersion, store)
    /\ tombstones = {}
    /\ activity = EmptyActivity
    /\ hk = [p \in Pids |-> IdleHook]
    /\ resolved = NoQuery
    /\ temp = NoTemp

Resolve(q) ==
    /\ resolved = NoQuery
    /\ \E lockOrder \in Orders(locks), recOrder \in Orders(DOMAIN load(file)) :
           resolved' = [q |-> q,
                        running |-> is_session_running(q),
                        res |-> resolve_state_with_details(load(file), lockOrder, recOrder, q, now),
                        pc |-> "done", at_start |-> {}]
    /\ UNCHANGED <<locks, alive, file, tombstones, activity, now, hk, temp>>

NextResolve == \E q \in Paths : Resolve(q)

SpecResolve == InitResolve /\ [][NextResolve]_vars

(***************************************************************************)
(* Queries over registries of one or two locks with their own timestamps   *)
(***************************************************************************)
\* The "started" texts of the locks: ISO timestamps of one width, which
\* compare as strings as the instants do; they are numbered in that order.
LockTimes == {1, 2}

TimedLocks ==
    {PathLock(pid, p, t) : pid \in Pids, p \in Paths, t \in LockTimes}
    \cup {SessionLock("s1", LivePid, p, t) : p \in Paths, t \in LockTimes}

\* One lock directory, or two with different names.
TimedRegistries ==
    {{l} : l \in TimedLocks}
    \cup UNION {{{l, k} : k \in {o \in TimedLocks : o.dir # l.dir}} : l \in TimedLocks}

\* No record, or one fresh Working record at one of the paths.
TimedStores ==
    {EmptySessions}
    \cup {update(EmptySessions, "s1", "Working", cwd, QueryTime) : cwd \in Paths}

InitLocks ==
    /\ alive = {LivePid}
    /\ now = QueryTime
    /\ locks \in TimedRegistries
    /\ \E store \in TimedStores : file = StoreDoc(StoreVersion, store)
    /\ tombstones = {}
    /\ activity = EmptyActivity
    /\ hk = [p \in Pids |-> IdleHook]
    /\ resolved = NoQuery
    /\ temp = NoTemp

SpecLocks == InitLocks /\ [][NextResolve]_vars

(***************************************************************************)
(* Queries over lock directories as the writers of both generations leave  *)
(* them                                                                    *)
(***************************************************************************)
\* What meta.json may record as proc_started for a lock of pid: nothing
\* (legacy), the start time of the process that holds the pid now, or the
\* start time of an earlier process whose pid has been recycled.
ProcStarted(pid) ==
    {None, Some(proc_start_time(pid)), Some(proc_start_time(pid) - 1)}

\* The creation time recorded under "started" (legacy) or under "created".
TimeFields == {"started", "created"}

WrittenLocks ==
    UNION {{[l EXCEPT !.field = f, !.proc_started = ps] :
               f \in TimeFields, ps \in ProcStarted(l.pid)} : l \in SnapshotLocks}

WrittenRegistries == {{}} \cup {{l} : l \in WrittenLocks}

InitWritten ==
    /\ alive = {LivePid}
    /\ now = QueryTime
    /\ locks \in WrittenRegistries
    /\ \E store \in TimedStores : file = StoreDoc(StoreVersion, store)
    /\ tombstones = {}
    /\ activity = EmptyActivity
    /\ hk = [p \in Pids |-> IdleHook]
    /\ resolved = NoQuery
    /\ temp = NoTemp

SpecWritten == InitWritten /\ [][NextResolve]_vars

(***************************************************************************)
(* The store on its own: load, update, remove and save of one StateStore   *)
(* over a state file that other writers left behind                        *)
(***************************************************************************)
\* A record as an earlier writer left it, with every optional field set.
StoredRecord ==
    [session_id |-> "s1", state |-> "Idle", cwd |-> PathAChild, updated_at |-> 0,
     state_changed_at |-> 0, working_on |-> Some(<<"w">>),
     transcript_path |-> Some(PathAB), permission_mode |-> Some(<<"m">>),
     project_dir |-> Some(PathA), last_event |-> Some(<<"e">>),
     active_subagent_count |-> 1]

StoredSessions == [s \in {"s1"} |-> StoredRecord]

\* A document whose record leaves out every member that has a serde
\* default, and one whose record names a state no variant has.
LegacyDoc ==
    [kind |-> "doc", version |-> StoreVersion,
     sessions |-> [s \in {"s1"} |->
         [record_to_json(StoredRecord) EXCEPT
             !.working_on = JsonAbsent, !.transcript_path = JsonAbsent,
             !.permission_mode = JsonAbsent, !.project_dir = JsonAbsent,
             !.last_event = JsonAbsent, !.active_subagent_count = None]]]

CorruptDoc ==
    [kind |-> "doc", version |-> StoreVersion,
     sessions |-> [s \in {"s1"} |->
         [record_to_json(StoredRecord) EXCEPT !.state = "unknown"]]]

StoreFiles ==
    {MissingFile, EmptyFile, PartialFile, UnreadableFile, LegacyDoc, CorruptDoc,
     StoreDoc(StoreVersion, StoredSessions), StoreDoc(StoreVersion - 1, StoredSessions),
     StoreDoc(StoreVersion + 1, EmptySessions)}

\* The last operation on the store of process p, with its arguments.
StoreOp(name, session_id, new_state, outcome) ==
    [IdleHook EXCEPT !.steps = <<name>>, !.session_id = session_id,
                     !.new_state = new_state, !.outcome = outcome]

\* StateStore::load(&state_file)
StoreLoad(p) ==
    LET result == load_result(file)
    IN /\ p \in alive
       /\ hk' = [hk EXCEPT ![p] =
                    [StoreOp("load", "", None, IF result.ok THEN "ok" ELSE "error")
                        EXCEPT !.store = IF result.ok THEN result.sessions ELSE hk[p].store]]
       /\ UNCHANGED <<locks, alive, file, tombstones, activity, now, resolved, temp>>

UpdateStates == {"Working", "Ready"}

\* store.update(session_id, state, cwd)
StoreUpdate(p, session_id, state, cwd) ==
    /\ p \in alive
    /\ hk' = [hk EXCEPT ![p] =
                 [StoreOp("update", session_id, Some(state), "ok")
                     EXCEPT !.cwd = cwd,
                            !.store = update(hk[p].store, session_id, state, cwd, now)]]
    /\ UNCHANGED <<locks, alive, file, tombstones, activity, now, resolved, temp>>

\* store.remove(session_id)
StoreRemove(p, session_id) ==
    /\ p \in alive
    /\ hk' = [hk EXCEPT ![p] =
                 [StoreOp("remove", session_id, None, "ok")
                     EXCEPT !.store = remove(hk[p].store, session_id)]]
    /\ UNCHANGED <<locks, alive, file, tombstones, activity, now, resolved, temp>>

\* store.save(), the whole of it (its steps are SaveBegin .. SavePersist).
StoreSave(p) ==
    /\ p \in alive
    /\ file' = StoreDoc(StoreVersion, hk[p].store)
    /\ hk' = [hk EXCEPT ![p] =
                 [StoreOp("save", "", None, "ok") EXCEPT !.store = hk[p].store]]
    /\ UNCHANGED <<locks, alive, tombstones, activity, now, resolved, temp>>

InitStore ==
    /\ locks = {}
    /\ alive = {LivePid}
    /\ file \in StoreFiles
    /\ tombstones = {}
    /\ activity = EmptyActivity
    /\ now = 0
    /\ hk = [p \in Pids |-> IdleHook]
    /\ resolved = NoQuery
    /\ temp = NoTemp

NextStore ==
    \/ \E p \in Pids : StoreLoad(p)
    \/ \E p \in Pids, session_id \in Sessions, state \in UpdateStates :
           StoreUpdate(p, session_id, state, PathA)
    \/ \E p \in Pids, session_id \in Sessions : StoreRemove(p, session_id)
    \/ \E p \in Pids : StoreSave(p)
    \/ Tick

SpecStore == InitStore /\ [][NextStore]_vars

(***************************************************************************)
(* The hook over a state file that may hold a record of an earlier writer  *)
(***************************************************************************)
InitStored ==
    /\ locks = {}
    /\ alive = {LivePid}
    /\ file \in {MissingFile, StoreDoc(StoreVersion, StoredSessions)}
    /\ tombstones = {}
    /\ activity = EmptyActivity
    /\ now = 0
    /\ hk = [p \in Pids |-> IdleHook]
    /\ resolved = NoQuery
    /\ temp = NoTemp

SpecStored == InitStored /\ [][Next]_vars

(***************************************************************************)
(* The hook with the failures of its environment                           *)
(***************************************************************************)
\* run(), lines 59-61: stdin is not JSON; serde_json::from_str fails and
\* run() returns the error.
HookParseFail(p) ==
    /\ hk[p].pc \in {"idle", "done"}
    /\ p \in alive
    /\ hk' = [hk EXCEPT ![p] = Finished(IdleHook, "error_parse")]
    /\ UNCHANGED <<locks, alive, file, tombstones, activity, now, resolved, temp>>

\* run(), line 84: the input has an event and a session id, and
\* dirs::home_dir() is None; run() returns the error.
HookNoHome(p, input) ==
    /\ hk[p].pc \in {"idle", "done"}
    /\ p \in alive
    /\ input.event # None
    /\ input.session_id # None
    /\ hk' = [hk EXCEPT ![p] =
                 Finished([IdleHook EXCEPT !.session_id = The(input.session_id)],
                          "error_home")]
    /\ UNCHANGED <<locks, alive, file, tombstones, activity, now, resolved, temp>>

\* create_tombstone, lines 563-575: the write fails, a warning is logged
\* and run() goes on with store.remove.
HookTombstoneFail(p) ==
    LET h == hk[p]
    IN /\ h.pc = "tombstone"
       /\ hk' = [hk EXCEPT ![p] = [h EXCEPT !.pc = "save",
                                            !.store = remove(h.store, h.session_id),
                                            !.steps = Append(h.steps, "tombstone_failed")]]
       /\ UNCHANGED <<locks, alive, file, tombstones, activity, now, resolved, temp>>

\* record_file_activity, lines 510-515: write_file_atomic fails, a warning
\* is logged and run() returns Ok.
HookRecordFail(p) ==
    LET h == hk[p]
    IN /\ h.pc = "record"
       /\ hk' = [hk EXCEPT ![p] = Finished([h EXCEPT !.steps = <<"record_failed">>], "ok")]
       /\ UNCHANGED <<locks, alive, file, tombstones, activity, now, resolved, temp>>

NextFaults ==
    \/ Next
    \/ \E p \in Pids : HookParseFail(p)
    \/ \E p \in Pids, input \in HookInputs : HookNoHome(p, input)
    \/ \E p \in Pids : HookTombstoneFail(p)
    \/ \E p \in Pids : HookRecordFail(p)

SpecFaults == Init /\ [][NextFaults]_vars

(***************************************************************************)
(* record_file_activity over sidecars that already hold long lists         *)
(***************************************************************************)
\* An entry an earlier hook recorded at time 0 with the Read tool.
SeedTool == "Read"
SeedEntry == [file_path |-> FileF, tool |-> SeedTool, timestamp |-> to_rfc3339(0)]

SeedFiles(n) == [i \in 1..n |-> SeedEntry]

\* The sidecar at the start: no row, or a row of s1 whose list is one
\* short of the limit or at the limit.
SeededActivity ==
    {EmptyActivity}
    \cup {[s \in {"s1"} |-> [cwd |-> PathA, files |-> SeedFiles(n)]] :
             n \in {ActivityCap - 1, ActivityCap}}

\* The file paths of the tool inputs, absolute and relative to the cwd.
FileRel == <<"f">>
ActivityFiles == {FileF, FileRel}
ActivityTools == {"Edit", "Write"}

\* How many entries of the sidecar the hooks of the behaviour recorded.
Recorded ==
    LET count(files) == Cardinality({i \in 1..Len(files) : files[i].tool # SeedTool})
    IN (IF "s1" \in DOMAIN activity THEN count(activity["s1"].files) ELSE 0)
       + (IF "s2" \in DOMAIN activity THEN count(activity["s2"].files) ELSE 0)

MaxRecorded == 2

RecordFileActivity(session_id, cwd, file_path, tool_name) ==
    /\ Recorded < MaxRecorded
    /\ activity' = record_file_activity(activity, session_id, cwd, file_path, tool_name, now)
    /\ UNCHANGED <<locks, alive, file, tombstones, now, hk, resolved, temp>>

InitActivity ==
    /\ locks = {}
    /\ alive = {LivePid}
    /\ file = MissingFile
    /\ tombstones = {}
    /\ activity \in SeededActivity
    /\ now = 0
    /\ hk = [p \in Pids |-> IdleHook]
    /\ resolved = NoQuery
    /\ temp = NoTemp

NextActivity ==
    \/ \E session_id \in Sessions, cwd \in HookPaths,
          file_path \in ActivityFiles, tool_name \in ActivityTools :
             RecordFileActivity(session_id, cwd, file_path, tool_name)
    \/ Tick

SpecActivity == InitActivity /\ [][NextActivity]_vars

(***************************************************************************)
(* A reader querying while the hook ends a session                         *)
(***************************************************************************)
\* The session to end: its record is fresh and Working, and the lock its
\* agent holds was written by either generation of the writer.
EndingDirs == HookPaths

EndingLock(cwd, f) ==
    [SessionLock("s1", LivePid, cwd, 0) EXCEPT
        !.field = f, !.proc_started = Some(proc_start_time(LivePid))]

EndInputs ==
    {[event |-> Some(SimpleEvent("SessionEnd")), session_id |-> Some("s1"),
      cwd |-> Some(cwd)] : cwd \in EndingDirs}

InitEnding ==
    /\ alive = {LivePid}
    /\ \E cwd \in EndingDirs, f \in TimeFields :
          /\ locks = {EndingLock(cwd, f)}
          /\ file = StoreDoc(StoreVersion, update(EmptySessions, "s1", "Working", cwd, 0))
    /\ tombstones = {}
    /\ activity = EmptyActivity
    /\ now = 0
    /\ hk = [p \in Pids |-> IdleHook]
    /\ resolved = NoQuery
    /\ temp = NoTemp

NextEnding ==
    \/ \E p \in Pids, input \in EndInputs : HookStart(p, input)
    \/ \E p \in Pids : HookLoad(p)
    \/ \E p \in Pids : HookCount(p)
    \/ \E p \in Pids : HookTombstone(p)
    \/ \E p \in Pids : HookSave(p)
    \/ \E p \in Pids : HookSaveFail(p)
    \/ \E p \in Pids : HookRemoveActivity(p)
    \/ \E p \in Pids : HookRelease(p)
    \/ \E q \in Paths : Resolve(q)

SpecEnding == InitEnding /\ [][NextEnding]_vars

(***************************************************************************)
(* A query followed step by step while the registry changes                *)
(***************************************************************************)
\* The answers resolve gives for q on the registry and the store as they
\* are now, one per enumeration order.
AnswersNow(q) ==
    {resolve_state_with_details(load(file), lockOrder, recOrder, q, now) :
        lockOrder \in Orders(locks), recOrder \in Orders(DOMAIN load(file))}

\* resolve_state_with_details, line 207: the call of is_session_running.
ResolveRunning(q) ==
    /\ resolved = NoQuery
    /\ resolved' = [q |-> q, running |-> is_session_running(q), res |-> None,
                    pc |-> "select", at_start |-> AnswersNow(q)]
    /\ UNCHANGED <<locks, alive, file, tombstones, activity, now, hk, temp>>

\* resolve_state_with_details, lines 208-244: the rest of the query, which
\* reads the lock directory again when is_session_running returned true.
ResolveSelect ==
    /\ resolved.pc = "select"
    /\ \E lockOrder \in Orders(locks), recOrder \in Orders(DOMAIN load(file)) :
           resolved' =
               [resolved EXCEPT
                   !.pc = "done",
                   !.res = IF resolved.running
                           THEN resolve_from_lock(load(file), lockOrder, recOrder,
                                                  resolved.q, now)
                           ELSE resolve_from_record(load(file), recOrder, resolved.q, now)]
    /\ UNCHANGED <<locks, alive, file, tombstones, activity, now, hk, temp>>

\* An agent process exits: kill(pid, 0) fails for it from now on.
AgentExit(p) ==
    /\ p \in alive
    /\ alive' = alive \ {p}
    /\ UNCHANGED <<locks, file, tombstones, activity, now, hk, resolved, temp>>

\* A lock directory is removed, as release_lock_by_session removes it.
LockRemoved(l) ==
    /\ l \in locks
    /\ locks' = locks \ {l}
    /\ UNCHANGED <<alive, file, tombstones, activity, now, hk, resolved, temp>>

NextScan ==
    \/ \E q \in Paths : ResolveRunning(q)
    \/ ResolveSelect
    \/ \E p \in Pids : AgentExit(p)
    \/ \E l \in TimedLocks : LockRemoved(l)

SpecScan == InitLocks /\ [][NextScan]_vars

(***************************************************************************)
(* The hook of one session next to the record, the sidecar row and the     *)
(* lock of another                                                         *)
(***************************************************************************)
\* What session s2 left in the store, the sidecar and the registry.
OtherSessions == update(EmptySessions, "s2", "Working", PathAB, 0)

OtherActivity == [s \in {"s2"} |-> [cwd |-> PathAB, files |-> <<SeedEntry>>]]

OtherLocks ==
    {[SessionLock("s2", LivePid, PathAB, 0) EXCEPT
        !.field = "created", !.proc_started = Some(proc_start_time(LivePid))]}

InitShared ==
    /\ locks = OtherLocks
    /\ alive = {LivePid}
    /\ file = StoreDoc(StoreVersion, OtherSessions)
    /\ tombstones = {}
    /\ activity = OtherActivity
    /\ now = 0
    /\ hk = [p \in Pids |-> IdleHook]
    /\ resolved = NoQuery
    /\ temp = NoTemp

SpecShared == InitShared /\ [][Next]_vars

(***************************************************************************)
(* Properties of the lock registry and the resolver                        *)
(***************************************************************************)
\* Path relations as the properties state them: the same directory, and a
\* directory strictly inside another.
SamePath(x, p) ==
    (IF x = Root THEN Root ELSE trim_end_matches_slash(x))
        = (IF p = Root THEN Root ELSE trim_end_matches_slash(p))

StrictlyUnder(x, p) ==
    /\ ~SamePath(x, p)
    /\ starts_with(x, IF ends_with_slash(p) THEN p ELSE p \o <<"/">>)

AtOrUnder(x, p) == SamePath(x, p) \/ StrictlyUnder(x, p)

Related(x, p) == AtOrUnder(x, p) \/ StrictlyUnder(p, x)

RecordPaths(r) == {r.cwd} \cup r.project_dir

Queried == resolved.q # <<>>

FromLock == Queried /\ resolved.res # None /\ The(resolved.res).is_from_lock

FromRecord == Queried /\ resolved.res # None /\ ~The(resolved.res).is_from_lock

NoLiveLockFor(q) == \A l \in locks : l.pid \in alive => ~AtOrUnder(l.path, q)

\* The records the fallback may select for q, and the newest among them.
Candidates(q) == {s \in DOMAIN load(file) : AtOrUnder(load(file)[s].cwd, q)}

Newest(q) ==
    {s \in Candidates(q) :
        \A o \in Candidates(q) : load(file)[o].updated_at <= load(file)[s].updated_at}

FreshActive(s) ==
    /\ now - load(file)[s].updated_at <= 30
    /\ load(file)[s].state # "Idle"

AnswerOf(s) ==
    [state |-> load(file)[s].state, session_id |-> Some(s),
     cwd |-> load(file)[s].cwd, is_from_lock |-> FALSE]

\* C1: is_session_running(P) is true iff some live lock records a path X
\* with X = P or X starting with P + "/", whether the lock directory is
\* named by the hash of the path or of a session key; a live lock at a
\* strict ancestor of P or at a sibling never makes P running.
C1_RunningIffLiveLockAtOrUnder ==
    Queried =>
        (resolved.running <=>
            \E l \in locks :
                /\ l.pid \in alive
                /\ \/ l.path = resolved.q
                   \/ starts_with(l.path, IF ends_with_slash(resolved.q) THEN resolved.q
                                          ELSE resolved.q \o <<"/">>))

\* C2: when a live lock answers the query and the store holds a record that
\* is an exact or child match of the lock's path and another that is only a
\* parent match, the answer carries the exact or child record's session
\* id, whatever the two updated_at values are.
C2_MatchTypeDominatesFreshness ==
    FromLock =>
        \A s, o \in DOMAIN load(file) :
            ( /\ \E x \in RecordPaths(load(file)[s]) : AtOrUnder(x, The(resolved.res).cwd)
              /\ \A x \in RecordPaths(load(file)[o]) : ~AtOrUnder(x, The(resolved.res).cwd)
              /\ \E x \in RecordPaths(load(file)[o]) : StrictlyUnder(The(resolved.res).cwd, x) )
            => The(resolved.res).session_id = Some(s)

C4_SessionIsolation ==
    Queried =>
        /\ \A s \in DOMAIN load(file) :
               ( /\ \A x \in RecordPaths(load(file)[s]) : ~Related(x, resolved.q)
                 /\ \A l \in locks : l.dir.session = s => ~Related(l.path, resolved.q) )
               => \A a \in resolved.res : a.session_id # Some(s)
        /\ ( /\ \A l \in locks : ~Related(l.path, resolved.q)
             /\ \A s \in DOMAIN load(file) :
                    \A x \in RecordPaths(load(file)[s]) : ~Related(x, resolved.q) )
           => resolved.res = None

C4_Witness ==
    /\ resolved.q = PathA
    /\ \E l \in locks : l.pid \in alive /\ l.path = PathA
    /\ "s2" \in DOMAIN load(file)
    /\ load(file)["s2"].cwd = PathAB
    /\ load(file)["s2"].project_dir = None
    /\ load(file)["s2"].updated_at = now
    /\ load(file)["s2"].state = "Working"
    /\ FromLock
    /\ The(resolved.res).session_id = None

C6_FallbackNeverUsesParent ==
    FromRecord =>
        \A s \in DOMAIN load(file) :
            StrictlyUnder(resolved.q, load(file)[s].cwd) =>
                The(resolved.res).session_id # Some(s)

C6_Witness ==
    /\ resolved.q = PathAChild
    /\ locks = {}
    /\ DOMAIN load(file) = {"s1"}
    /\ load(file)["s1"].cwd = PathA
    /\ load(file)["s1"].updated_at = now
    /\ load(file)["s1"].state = "Working"
    /\ resolved.res = None

(***************************************************************************)
(* Properties of the hook processor and of save                            *)
(***************************************************************************)
InFlight(h) == h.pc \notin {"idle", "done"}

C8_TombstoneDropsEvents ==
    [][\A p \in Pids :
          (~InFlight(hk[p]) /\ hk'[p] # hk[p]) =>
              /\ (InFlight(hk'[p]) /\ hk'[p].event.name \notin {"SessionStart", "SessionEnd"})
                     => hk'[p].session_id \notin tombstones
              /\ (InFlight(hk'[p]) /\ hk'[p].event.name = "SessionStart")
                     => hk'[p].session_id \notin tombstones'
              /\ hk'[p].outcome = "tombstoned"
                     => /\ hk'[p].pc = "done"
                        /\ hk'[p].session_id \in tombstones
                        /\ UNCHANGED <<file, locks, activity, tombstones>>
              /\ UNCHANGED <<file, locks, activity>>]_vars

C8_Witness ==
    \E p \in Pids :
        /\ hk[p].pc = "done"
        /\ hk[p].outcome = "tombstoned"
        /\ hk[p].session_id \in tombstones
        /\ hk[p].session_id \notin DOMAIN load(file)

\* C9: whatever step of save a writer crashes or fails at, the store file
\* is a whole document, and a load of it returns the sessions it held
\* before the saves or the sessions of a save that completed its rename;
\* no reader sees a partial or empty file.
C9_AtomicSave ==
    /\ file.kind = "doc"
    /\ \/ load(file) = PriorSessions
       \/ \E p \in Pids : hk[p].pc = "done" /\ hk[p].outcome = "ok" /\ load(file) = hk[p].store

C9_Witness ==
    \E p \in Pids :
        /\ p \notin alive
        /\ hk[p].pc = "write"
        /\ temp[p] = PartialFile
        /\ hk[p].store # PriorSessions
        /\ load(file) = PriorSessions

\* The state each event of C10 leaves in the record.
StateAfter(event) ==
    CASE event.name = "UserPromptSubmit" -> Some("Working")
      [] event.name = "PermissionRequest" -> Some("Waiting")
      [] event.name = "PreCompact" -> Some("Compacting")
      [] event.name = "Notification" /\ event.notification_type = "idle_prompt" -> Some("Ready")
      [] event.name = "Stop" /\ ~event.stop_hook_active -> Some("Ready")
      [] OTHER -> None

\* C10: when the hook has processed UserPromptSubmit, PermissionRequest,
\* PreCompact, Notification(idle_prompt) or Stop (stop_hook_active not true)
\* for a session without tombstone and with a cwd, the session's record in
\* the store file has the state Working, Waiting, Compacting, Ready, Ready
\* respectively, whatever state it had before, a missing record included.
C10_StateFixedByEvent ==
    [][\A p \in Pids :
          ( /\ InFlight(hk[p])
            /\ hk'[p].pc = "done"
            /\ hk'[p].outcome = "ok"
            /\ StateAfter(hk[p].event) # None )
          => /\ hk[p].session_id \in DOMAIN load(file')
             /\ Some(load(file')[hk[p].session_id].state) = StateAfter(hk[p].event)]_vars

C10_Witness ==
    \E p \in Pids :
        /\ hk[p].pc = "save"
        /\ hk[p].event.name = "PermissionRequest"
        /\ hk[p].session_id \in DOMAIN load(file)
        /\ load(file)[hk[p].session_id].state = "Working"
        /\ hk[p].store[hk[p].session_id].state = "Waiting"

\* The state of a session's record in the store file, None without record.
StoredState(content, session_id) ==
    IF session_id \in DOMAIN load(content)
    THEN Some(load(content)[session_id].state) ELSE None

ActiveStates == {Some("Working"), Some("Waiting"), Some("Compacting")}

\* C11: while the hook processes SessionStart for a session whose record is
\* Working, Waiting or Compacting, the record in the store file is left as
\* it is (state, state_changed_at and updated_at unchanged); the store file
\* is written only for a session that had no record or a Ready or Idle one,
\* and then the record is Ready; so when the hook returns, the record is
\* there, still in its active state or Ready.
C11_SessionStartKeepsActive ==
    [][\A p \in Pids :
          ( /\ InFlight(hk[p])
            /\ hk[p].event.name = "SessionStart"
            /\ hk'[p] # hk[p] )
          => LET sid == hk[p].session_id
             IN /\ StoredState(file, sid) \in ActiveStates
                       => /\ sid \in DOMAIN load(file')
                          /\ load(file')[sid] = load(file)[sid]
                /\ file' # file
                       => /\ StoredState(file, sid) \in {None, Some("Ready"), Some("Idle")}
                          /\ StoredState(file', sid) = Some("Ready")
                /\ (hk'[p].pc = "done" /\ hk'[p].outcome = "ok")
                       => StoredState(file', sid) \in ActiveStates \cup {Some("Ready")}]_vars

C11_Witness ==
    \E p \in Pids :
        /\ hk[p].pc = "spawn"
        /\ hk[p].event.name = "SessionStart"
        /\ hk[p].action = "Skip"
        /\ StoredState(file, hk[p].session_id) = Some("Waiting")
        /\ now > load(file)[hk[p].session_id].updated_at

\* C12 as stated: while the hook processes PreToolUse or PostToolUse for a
\* session whose record is Working, Waiting or Compacting, the state of the
\* record is left as it is.
C12_ToolUseKeepsActiveState ==
    [][\A p \in Pids :
          ( /\ InFlight(hk[p])
            /\ hk[p].event.name \in {"PreToolUse", "PostToolUse"}
            /\ hk'[p] # hk[p]
            /\ StoredState(file, hk[p].session_id) \in ActiveStates )
          => StoredState(file', hk[p].session_id) = StoredState(file, hk[p].session_id)]_vars

\* C12: PreToolUse and PostToolUse are heartbeats only for a session whose
\* record is Working: its state and state_changed_at are left as they are
\* and updated_at is refreshed; for every other session (no record, Ready,
\* Idle, Waiting, Compacting) they set the state to Working; so when the
\* hook returns, the record is Working.
C12_ToolUseSetsWorking ==
    [][\A p \in Pids :
          ( /\ InFlight(hk[p])
            /\ hk[p].event.name \in {"PreToolUse", "PostToolUse"}
            /\ hk'[p] # hk[p] )
          => LET sid == hk[p].session_id
             IN /\ StoredState(file, sid) = Some("Working")
                       => /\ StoredState(file', sid) = Some("Working")
                          /\ load(file')[sid].state_changed_at = load(file)[sid].state_changed_at
                /\ file' # file
                       => /\ StoredState(file', sid) = Some("Working")
                          /\ load(file')[sid].updated_at = hk[p].store[sid].updated_at
                          /\ StoredState(file, sid) # Some("Working")
                                 => load(file')[sid].state_changed_at
                                        = load(file')[sid].updated_at
                /\ (hk'[p].pc = "done" /\ hk'[p].outcome = "ok")
                       => StoredState(file', sid) = Some("Working")]_vars

C12_Witness ==
    \E p \in Pids :
        /\ hk[p].pc = "save"
        /\ hk[p].event.name = "PreToolUse"
        /\ StoredState(file, hk[p].session_id) = Some("Waiting")
        /\ hk[p].store[hk[p].session_id].state = "Working"

\* The live locks bound to a session and held for a process other than p.
OtherSessionLocks(session_id, p) ==
    {l \in locks : /\ l.dir.kind = "session"
                   /\ l.dir.session = session_id
                   /\ l.pid # p
                   /\ l.pid \in alive}

\* C13: when the hook processes SessionEnd for session S on behalf of
\* process p and finds a live lock bound to S with another pid, it keeps
\* the record: it writes no tombstone and does not touch the store file,
\* and only releases its own lock; when it finds none, it writes the
\* tombstone and then saves the store without the record of S.
C13_SessionEndKeepsSharedRecord ==
    [][\A p \in Pids :
          (hk[p].action = "Delete" /\ InFlight(hk[p]) /\ hk'[p] # hk[p]) =>
              LET sid == hk[p].session_id
              IN /\ (hk[p].pc = "count" /\ OtherSessionLocks(sid, p) # {})
                        => /\ hk'[p].pc = "release"
                           /\ hk'[p].steps = <<>>
                           /\ UNCHANGED <<file, tombstones, locks>>
                 /\ (hk[p].pc = "count" /\ OtherSessionLocks(sid, p) = {})
                        => /\ hk'[p].pc = "tombstone"
                           /\ UNCHANGED <<file, tombstones, locks>>
                 /\ (hk[p].pc = "release" /\ hk[p].steps = <<>>)
                        => /\ UNCHANGED <<file, tombstones, activity>>
                           /\ hk'[p].pc = "done"
                 /\ hk[p].pc = "tombstone"
                        => /\ sid \in tombstones'
                           /\ hk'[p].pc = "save"
                 /\ (hk[p].pc = "save" /\ file' # file)
                        => sid \notin DOMAIN load(file')]_vars

C13_Witness ==
    \E p \in Pids :
        /\ hk[p].pc = "release"
        /\ hk[p].action = "Delete"
        /\ hk[p].steps = <<>>
        /\ OtherSessionLocks(hk[p].session_id, p) # {}
        /\ hk[p].session_id \in DOMAIN load(file)
        /\ hk[p].session_id \notin tombstones

\* C14: whenever is_session_running(Q) holds, resolve returns a result
\* with is_from_lock = true whose cwd is the path of a live lock at or
\* under Q (the path of the lock, not Q and not a record's cwd); when no
\* record has a cwd or project_dir that is an exact, child or parent match
\* of that path, the state is Ready and the session id is absent.
C14_RunningGivesLockResult ==
    (Queried /\ resolved.running) =>
        /\ resolved.res # None
        /\ The(resolved.res).is_from_lock
        /\ \E l \in locks :
               /\ l.pid \in alive
               /\ AtOrUnder(l.path, resolved.q)
               /\ The(resolved.res).cwd = l.path
        /\ (\A s \in DOMAIN load(file) :
                \A x \in RecordPaths(load(file)[s]) : ~Related(x, The(resolved.res).cwd))
               => /\ The(resolved.res).state = "Ready"
                  /\ The(resolved.res).session_id = None

C14_Witness ==
    /\ Queried
    /\ resolved.running
    /\ resolved.q = PathA
    /\ resolved.res = Some(ResolvedState("Ready", None, PathAChild, TRUE))
    /\ DOMAIN load(file) = {"s1"}
    /\ load(file)["s1"].cwd = PathAB
    /\ load(file)["s1"].updated_at = now

\* The live locks whose path is Q, trailing slashes aside, or lies under Q.
LiveLocksFor(q) == {l \in locks : l.pid \in alive /\ AtOrUnder(l.path, q)}

\* C15: the lock resolve uses is a live lock at Q (trailing slashes aside)
\* or under Q with the greatest creation timestamp among all such locks:
\* the answer's cwd is its path. When the registry holds a single live lock
\* and it lies under Q, the answer is from that lock, its cwd is the
\* lock's path, and it carries the state and session id of the fresh record
\* stored for that path.
C15_NewestMatchingLock ==
    /\ FromLock =>
           \E l \in LiveLocksFor(resolved.q) :
               /\ The(resolved.res).cwd = l.path
               /\ \A o \in LiveLocksFor(resolved.q) : o.stamp <= l.stamp
    /\ Queried =>
           \A l \in locks :
               (locks = {l} /\ l.pid \in alive /\ StrictlyUnder(l.path, resolved.q))
               => /\ FromLock
                  /\ The(resolved.res).cwd = l.path
                  /\ \A s \in DOMAIN load(file) :
                         load(file)[s].cwd = l.path
                         => /\ The(resolved.res).session_id = Some(s)
                            /\ The(resolved.res).state = load(file)[s].state

C15_Witness ==
    /\ FromLock
    /\ resolved.q = PathA
    /\ \E l, o \in LiveLocksFor(resolved.q) :
           /\ l.stamp > o.stamp
           /\ l.path = PathAChild
           /\ o.path = PathA
           /\ The(resolved.res).cwd = l.path
           /\ The(resolved.res).session_id = Some("s1")
           /\ load(file)["s1"].cwd = PathAChild

\* C16: a live lock overrides staleness: when the answer comes from a lock
\* and carries the session id of a record, its state is the state stored
\* in that record, however long ago the record was updated.
C16_LockOverridesStaleness ==
    FromLock =>
        \A s \in DOMAIN load(file) :
            The(resolved.res).session_id = Some(s)
                => The(resolved.res).state = load(file)[s].state

\* C17: an answer that does not come from a lock never has the state
\* Idle: its state is Working, Ready, Waiting or Compacting, and it is the
\* state of a record that is not Idle.
C17_FallbackNeverIdle ==
    FromRecord =>
        /\ The(resolved.res).state \in {"Working", "Ready", "Waiting", "Compacting"}
        /\ \E s \in DOMAIN load(file) :
               /\ The(resolved.res).session_id = Some(s)
               /\ load(file)[s].state # "Idle"
               /\ load(file)[s].state = The(resolved.res).state

\* A query without lock whose only record is fresh and Idle: resolve
\* returns nothing.
C17_Witness ==
    /\ Queried
    /\ locks = {}
    /\ resolved.q = PathA
    /\ resolved.res = None
    /\ DOMAIN load(file) = {"s1"}
    /\ load(file)["s1"].cwd = PathA
    /\ load(file)["s1"].state = "Idle"
    /\ load(file)["s1"].updated_at = now

\* C18: when a store has been saved, loading the store file succeeds and
\* returns the sessions that were saved: the same session ids and, for
\* each, a record equal in every field.
C18_SaveLoadRoundTrip ==
    \A p \in Pids :
        hk[p].steps = <<"save">> =>
            /\ load_result(file).ok
            /\ DOMAIN load_result(file).sessions = DOMAIN hk[p].store
            /\ \A s \in DOMAIN hk[p].store : load_result(file).sessions[s] = hk[p].store[s]

C18_Witness ==
    \E p \in Pids :
        /\ hk[p].steps = <<"save">>
        /\ DOMAIN hk[p].store = Sessions
        /\ \E s \in Sessions :
               /\ hk[p].store[s].working_on # None
               /\ hk[p].store[s].state_changed_at < hk[p].store[s].updated_at
        /\ \E s \in Sessions : hk[p].store[s].working_on = None

\* The JSON texts that name a session state.
StateTexts == {"working", "ready", "idle", "compacting", "waiting"}

\* A whole JSON document whose records all parse.
WellFormed(content) ==
    /\ content.kind = "doc"
    /\ \A s \in DOMAIN content.sessions : content.sessions[s].state \in StateTexts

\* C19: StateStore::load of a store file that is missing, empty, not JSON
\* (cut short, or with a record that does not parse) or of a version other
\* than 3 succeeds and returns an empty store; a load that returns sessions
\* has read a well-formed document of version 3 and returns one session
\* per record of the document.
C19_LoadNeverFails ==
    \A p \in Pids :
        hk[p].steps = <<"load">> =>
            /\ ( \/ file.kind \in {"missing", "empty", "partial"}
                 \/ (file.kind = "doc" /\ ~WellFormed(file))
                 \/ (file.kind = "doc" /\ file.version # 3) )
                   => /\ hk[p].outcome = "ok"
                      /\ hk[p].store = EmptySessions
            /\ (WellFormed(file) /\ file.version = 3)
                   => /\ hk[p].outcome = "ok"
                      /\ DOMAIN hk[p].store = DOMAIN file.sessions
            /\ (hk[p].outcome = "ok" /\ hk[p].store # EmptySessions)
                   => /\ WellFormed(file)
                      /\ file.version = 3

C19_Witness ==
    \E p \in Pids :
        /\ hk[p].steps = <<"load">>
        /\ hk[p].outcome = "ok"
        /\ hk[p].store = EmptySessions
        /\ WellFormed(file)
        /\ file.version # 3
        /\ DOMAIN file.sessions # {}

\* C20: StateStore::update(S, state, cwd) changes the record of S only: the
\* records of the other sessions stay; the record of S has the given
\* state and cwd and updated_at = now; its state_changed_at is the old one
\* when a record of S existed with the same state, and now otherwise; its
\* working_on, transcript_path, permission_mode, project_dir, last_event
\* and active_subagent_count are those of the old record of S.
C20_UpdateIsUpsert ==
    [][\A p \in Pids :
          (hk'[p].steps = <<"update">> /\ hk'[p] # hk[p]) =>
              LET sid == hk'[p].session_id
                  old == hk[p].store
                  new == hk'[p].store
              IN /\ DOMAIN new = DOMAIN old \cup {sid}
                 /\ \A o \in DOMAIN old \ {sid} : new[o] = old[o]
                 /\ new[sid].session_id = sid
                 /\ Some(new[sid].state) = hk'[p].new_state
                 /\ new[sid].cwd = hk'[p].cwd
                 /\ new[sid].updated_at = now
                 /\ new[sid].state_changed_at =
                        IF sid \in DOMAIN old /\ old[sid].state = new[sid].state
                        THEN old[sid].state_changed_at ELSE now
                 /\ sid \in DOMAIN old =>
                        /\ new[sid].working_on = old[sid].working_on
                        /\ new[sid].transcript_path = old[sid].transcript_path
                        /\ new[sid].permission_mode = old[sid].permission_mode
                        /\ new[sid].project_dir = old[sid].project_dir
                        /\ new[sid].last_event = old[sid].last_event
                        /\ new[sid].active_subagent_count
                               = old[sid].active_subagent_count]_vars

C20_Witness ==
    \E p \in Pids :
        /\ hk[p].steps = <<"update">>
        /\ DOMAIN hk[p].store = Sessions
        /\ LET r == hk[p].store[hk[p].session_id]
           IN /\ r.working_on # None
              /\ r.active_subagent_count > 0
              /\ r.updated_at = now
              /\ r.state_changed_at < r.updated_at

\* C21: with a clock that never goes back and the hooks of an agent run
\* one after the other, every record in the store file has
\* state_changed_at <= updated_at, and no write of the store file lowers
\* the updated_at of a session's record.
C21_TimestampsOrdered ==
    /\ [](\A s \in DOMAIN load(file) :
              load(file)[s].state_changed_at <= load(file)[s].updated_at)
    /\ [][\A s \in DOMAIN load(file) \cap DOMAIN load(file') :
              load(file)[s].updated_at <= load(file')[s].updated_at]_vars

C21_Witness ==
    /\ "s1" \in DOMAIN load(file)
    /\ load(file)["s1"].state = "Working"
    /\ load(file)["s1"].state_changed_at < load(file)["s1"].updated_at
    /\ load(file)["s1"].updated_at = now
    /\ \E p \in Pids : hk[p].pc = "done" /\ hk[p].outcome = "ok"

\* The outcomes with which run() returns Err.
ErrorOutcomes == {"error", "error_parse", "error_home"}

\* C22: a hook invoked with an input that lacks session_id or
\* hook_event_name returns at once with success, and the store file, the
\* lock registry, the tombstones and the file-activity sidecar are as they
\* were.
C22_AnonymousInputIsNoOp ==
    [][\A p \in Pids :
          (~InFlight(hk[p]) /\ hk'[p] # hk[p] /\ hk'[p].session_id = "")
          => /\ hk'[p].pc = "done"
             /\ hk'[p].outcome \in {"no_event", "no_session"}
             /\ hk'[p].outcome \notin ErrorOutcomes
             /\ UNCHANGED <<file, locks, tombstones, activity>>]_vars

C22_Witness ==
    \E p \in Pids :
        /\ hk[p].pc = "done"
        /\ hk[p].outcome = "no_session"
        /\ hk[p].session_id = ""
        /\ "s1" \in DOMAIN load(file)
        /\ locks # {}
        /\ "s1" \in DOMAIN activity

\* C23: a hook whose input carries no cwd, at the point where it has loaded
\* the store: for an event other than SessionEnd and a session with a
\* record, it goes on with the record's cwd (the record it saves keeps
\* that cwd); for an event other than SessionEnd and a session without
\* record, it returns with the store file and the locks unchanged, so no
\* record is created; SessionEnd goes on to its clean-up.
C23_CwdResolution ==
    [][\A p \in Pids :
          (hk[p].pc = "load" /\ hk[p].outcome = "no_cwd" /\ hk'[p] # hk[p]) =>
              LET sid == hk[p].session_id
              IN /\ (hk[p].event.name # "SessionEnd" /\ sid \in DOMAIN load(file))
                        => /\ hk'[p].outcome # "no_cwd"
                           /\ InFlight(hk'[p]) => hk'[p].cwd = load(file)[sid].cwd
                           /\ hk'[p].pc = "save"
                                  => hk'[p].store[sid].cwd = load(file)[sid].cwd
                 /\ (hk[p].event.name # "SessionEnd" /\ sid \notin DOMAIN load(file))
                        => /\ hk'[p].pc = "done"
                           /\ hk'[p].outcome = "no_cwd"
                           /\ UNCHANGED <<file, locks>>
                           /\ sid \notin DOMAIN load(file')
                 /\ hk[p].event.name = "SessionEnd" => hk'[p].pc = "count"]_vars

C23_Witness ==
    \E p \in Pids :
        /\ hk[p].pc = "done"
        /\ hk[p].outcome = "no_cwd"
        /\ hk[p].session_id = "s1"
        /\ "s1" \notin DOMAIN load(file)
        /\ file.kind = "doc"
        /\ locks = {}

\* C24: store-write failures, malformed stdin and failures to write a
\* tombstone or the sidecar never make the hook return an error; the only
\* error the hook returns is the failure to find the home directory.
C24_OnlyHomeFailureIsError ==
    [][\A p \in Pids :
          (hk'[p] # hk[p] /\ hk'[p].pc = "done" /\ hk'[p].outcome \in ErrorOutcomes)
          => hk'[p].outcome = "error_home"]_vars

\* The lock's pid is held by a process other than the one that took the
\* lock: the recorded start time is not that of the pid's present holder.
Recycled(l) == l.proc_started # None /\ The(l.proc_started) # proc_start_time(l.pid)

\* C25: a lock whose proc_started differs from the start time of the
\* process that holds its pid now is not alive: when it is the only lock,
\* no path is running and no answer comes from a lock.
C25_RecycledPidIsNotAlive ==
    Queried =>
        \A l \in locks :
            (locks = {l} /\ Recycled(l)) => (~resolved.running /\ ~FromLock)

\* C29: a lock that records its creation time under "created" is read as
\* one that records it under "started": when a live process holds the
\* only lock, named by the hash of the queried path and recording that
\* path, the path is running and the answer comes from the lock, whichever
\* of the two fields the lock uses.
C29_CreatedReadLikeStarted ==
    Queried =>
        \A l \in locks :
            ( /\ locks = {l}
              /\ l.pid \in alive
              /\ ~Recycled(l)
              /\ l.dir = PathKey(resolved.q)
              /\ l.path = resolved.q )
            => (resolved.running /\ FromLock /\ The(resolved.res).cwd = l.path)

\* The session an answer identifies: none when there is no answer or the
\* answer carries no session_id.
Identified(res) == IF res = None THEN None ELSE The(res).session_id

\* The sessions resolve may identify for q on the current locks and store,
\* one per order in which the directory and the map are enumerated.
IdentifiedFor(q) ==
    {Identified(resolve_state_with_details(load(file), lockOrder, recOrder, q, now)) :
        lockOrder \in Orders(locks), recOrder \in Orders(DOMAIN load(file))}

\* C26: trailing slashes are normalized in resolution: for every query Q
\* other than "/", whatever the locks and the store, a query for Q written
\* with a trailing slash identifies the session a query for Q identifies.
C26_TrailingSlashNormalized ==
    \A q \in Paths \ {Root} :
        (Queried /\ resolved.q = with_slash(q))
        => Identified(resolved.res) \in IdentifiedFor(q)

\* The events the table maps to Skip whatever the record: an unknown event
\* name, a Notification other than idle_prompt, a Stop with
\* stop_hook_active set.
SkipEvents ==
    {e \in Events :
        \/ e.name = "Unknown"
        \/ e.name = "Notification" /\ e.notification_type # "idle_prompt"
        \/ e.name = "Stop" /\ e.stop_hook_active}

FilesOf(sidecar, s) == IF s \in DOMAIN sidecar THEN sidecar[s].files ELSE <<>>

C30_SessionEndAtomic ==
    [][\A p \in Pids :
          ( /\ hk[p].event.name = "SessionEnd" /\ InFlight(hk[p])
            /\ resolved = NoQuery /\ resolved' # NoQuery )
          => \/ resolved'.res = None
             \/ The(resolved'.res).session_id = Some(hk[p].session_id)]_vars

\* The strength of a record's match against a lock path as the property
\* states it: the strongest over cwd and project_dir of exact (3), child
\* (2) and parent (1); 0 when neither field is related to the path.
PathStrength(x, lock_path) ==
    IF SamePath(x, lock_path) THEN 3
    ELSE IF StrictlyUnder(x, lock_path) THEN 2
    ELSE IF StrictlyUnder(lock_path, x) THEN 1
    ELSE 0

MatchStrength(r, lock_path) ==
    LET found == {PathStrength(x, lock_path) : x \in RecordPaths(r)}
    IN CHOOSE m \in found : \A o \in found : o <= m

Eligible(lock_path) ==
    {s \in DOMAIN load(file) : MatchStrength(load(file)[s], lock_path) > 0}

StaleAt(r) == now - r.updated_at > StaleSecs

\* a is selected before b for the lock path.
SelectedBefore(a, b, lock_path) ==
    IF StaleAt(a) # StaleAt(b) THEN ~StaleAt(a)
    ELSE IF a.updated_at # b.updated_at THEN a.updated_at > b.updated_at
    ELSE IF MatchStrength(a, lock_path) # MatchStrength(b, lock_path)
         THEN MatchStrength(a, lock_path) > MatchStrength(b, lock_path)
    ELSE SidRank(a.session_id) > SidRank(b.session_id)

C32_SingleScan ==
    [][(resolved.pc = "select" /\ resolved'.pc = "done")
          => resolved'.res \in resolved.at_start \cup AnswersNow(resolved.q)]_vars

\* C33: is_session_running(Q) and find_matching_child_lock(Q, None, None)
\* agree on every lock set and every Q: the query reports the path as
\* running exactly when find_matching_child_lock returns a lock for it.
C33_RunningAgreesWithMatching ==
    Queried =>
        (resolved.running
            <=> \E lockOrder \in Orders(locks) :
                   find_matching_child_lock(lockOrder, resolved.q) # None)

\* The full clean-up of SessionEnd for s has completed and no SessionStart
\* for s has been taken up since: a hook has returned from the four steps
\* of the clean-up, the tombstone is there, the record is out of the store
\* file and no hook is processing an event of s.
Ended(s) ==
    /\ \E p \in Pids :
          /\ hk[p].pc = "done" /\ hk[p].session_id = s /\ hk[p].outcome = "ok"
          /\ hk[p].steps = <<"tombstone", "save", "activity", "release">>
    /\ s \in tombstones
    /\ s \notin DOMAIN load(file)
    /\ \A p \in Pids :
          ~(InFlight(hk[p]) /\ hk[p].session_id = s)

\* C34: once SessionEnd for a session has completed its full clean-up the
\* store file holds no record for it until a SessionStart for it is
\* processed, also when another hook loaded the store before the record
\* was removed and saves its copy afterwards.
C34_NoResurrection ==
    [][\A s \in Sessions :
          (Ended(s) /\ s \in tombstones') => s \notin DOMAIN load(file')]_vars

\* C35: resolve is a function of the lock set, the record set, the query
\* path and the time: the answer is the same whatever the order in which
\* lock directories and store records are enumerated, also when two
\* matching live locks carry equal creation timestamps.
C35_OrderIndependent ==
    Queried => AnswersNow(resolved.q) = {resolved.res}

CleanedUp(p) ==
    /\ hk[p].pc = "done" /\ hk[p].outcome = "ok"
    /\ hk[p].steps = <<"tombstone", "save", "activity", "release">>

C38_FailedEndHasNoEffect ==
    \A p \in Pids :
        ( /\ hk[p].pc = "done" /\ hk[p].outcome = "error"
          /\ hk[p].steps = <<"tombstone">>
          /\ hk[p].session_id \in DOMAIN load(file) )
        => ~has_tombstone(hk[p].session_id)

\* Session s has been ended with the full clean-up as far as agent p can
\* tell: its tombstone exists and it has no record, no sidecar row and no
\* lock of p.
AlreadyEnded(s, p) ==
    /\ s \in tombstones
    /\ s \notin DOMAIN load(file)
    /\ s \notin DOMAIN activity
    /\ \A l \in locks : ~(l.dir = compute_lock_hash(SessionKey(s, p)) /\ l.pid = p)

\* What the four stores hold of the sessions other than s.
OthersIn(content, sidecar, registry, s) ==
    [records |-> [o \in DOMAIN load(content) \ {s} |-> load(content)[o]],
     rows |-> [o \in DOMAIN sidecar \ {s} |-> sidecar[o]],
     locks |-> {l \in registry : l.dir.session # s}]

\* C39: SessionEnd is idempotent: a SessionEnd that arrives when the
\* session's tombstone exists and its clean-up has been done leaves the
\* store, the tombstones, the sidecar and the locks as they are; and no
\* step of any SessionEnd removes or alters the record, the sidecar row or
\* the lock of another session.
C39_SessionEndIdempotent ==
    [][\A p \in Pids :
          (InFlight(hk[p]) /\ hk[p].event.name = "SessionEnd") =>
              LET s == hk[p].session_id
              IN /\ AlreadyEnded(s, p) =>
                       /\ file' = file
                       /\ tombstones' = tombstones
                       /\ activity' = activity
                       /\ locks' = locks
                 /\ OthersIn(file', activity', locks', s)
                        = OthersIn(file, activity, locks, s)]_vars

\* The second SessionEnd of s1 is about to write the tombstone that is
\* already there, next to the record, the row and the lock of s2.
C39_Witness ==
    \E p \in Pids :
        /\ hk[p].pc = "tombstone" /\ hk[p].event.name = "SessionEnd"
        /\ AlreadyEnded(hk[p].session_id, p)
        /\ file.kind = "doc"
        /\ OthersIn(file, activity, locks, hk[p].session_id)
              = [records |-> OtherSessions, rows |-> OtherActivity, locks |-> OtherLocks]

\* The states the hook sets.
HookStates == {"Working", "Ready", "Waiting", "Compacting"}

\* C40: the hook never writes Idle: starting from a store without Idle
\* records every record's state is Working, Ready, Waiting or Compacting;
\* and a record comes into the store file only by the save of a hook that
\* processes a state-setting event of that session, so that after a
\* completed SessionEnd clean-up it is there only if such an event followed.
C40_HookNeverWritesIdle ==
    /\ [](\A s \in DOMAIN load(file) : load(file)[s].state \in HookStates)
    /\ [][\A s \in Sessions :
             (s \notin DOMAIN load(file) /\ s \in DOMAIN load(file')) =>
                 \E p \in Pids :
                    /\ hk[p].pc = "save" /\ hk[p].session_id = s
                    /\ hk[p].action \in {"Upsert", "Heartbeat"}
                    /\ process_event(hk[p].event, None).action = "Upsert"]_vars

\* A hook has returned after setting the record of s1 to Ready once the
\* clock had advanced; no tombstone of s1 exists.
C40_Witness ==
    /\ "s1" \in DOMAIN load(file)
    /\ load(file)["s1"].state = "Ready"
    /\ "s1" \notin tombstones
    /\ now = MaxClock
    /\ load(file)["s1"].state_changed_at = MaxClock
    /\ \E p \in Pids : hk[p].pc = "done" /\ hk[p].outcome = "ok" /\ hk[p].session_id = "s1"

====
